---- MODULE Spec2Model ----
(***************************************************************************)
(* A model of the Storj/MetaDisk bridge client: the ECDSA key pair helper  *)
(* (KeyPair), the request construction and signing of the two client       *)
(* generations (lib/client.js: Client, index.js: MetaDiskClient).          *)
(*                                                                         *)
(* Representation of JavaScript values                                     *)
(*   Text    a string: a sequence of one-character strings.  The hex form  *)
(*           of a hash digest is a text of one opaque element.             *)
(*   Buffer  <<"utf8", text>>   the UTF-8 bytes of a text                  *)
(*           <<"raw", bytes>>   explicit bytes, each in 0..255             *)
(*           <<"digest", <<alg, buffer>>>>  the digest of a buffer         *)
(*           <<"der", sig>>     the DER bytes of a signature               *)
(*           <<"bad", text>>    what a failed decoding leaves              *)
(*   Object  a sequence of [k, v] properties in insertion order, v a       *)
(*           value [t, s, n]: a string, a number or undefined.             *)
(* SHA-256, RIPEMD-160 and the ECDSA signature are symbolic (collision     *)
(* free); the curve is y^2 = x^3 + 7 as secp256k1, over a small field.     *)
(***************************************************************************)
EXTENDS Integers, Sequences, FiniteSets, TLC

\* ------------------------------------------------------------------ bounds
\* Date.now() readings the clock can reach.
MaxClock == 1
\* Times MetaDiskClient's createUser hashes the password of one object.
MaxHashes == 2
\* KeyPair instances alive in a run.
MaxKeyPairs == 2
\* Shards of the file storeFileInBucket stores.
MaxShards == 3

\* ------------------------------------------------------------------- text

HexChars == <<"0", "1", "2", "3", "4", "5", "6", "7",
              "8", "9", "a", "b", "c", "d", "e", "f">>

HexCharSet == {HexChars[i] : i \in 1..16}

IsHexChar(c) == c \in HexCharSet

\* The value of a hex digit (0 for a character that is none).
HexVal(c) ==
    CASE c = "0" -> 0 [] c = "1" -> 1 [] c = "2" -> 2 [] c = "3" -> 3
      [] c = "4" -> 4 [] c = "5" -> 5 [] c = "6" -> 6 [] c = "7" -> 7
      [] c = "8" -> 8 [] c = "9" -> 9 [] c = "a" -> 10 [] c = "b" -> 11
      [] c = "c" -> 12 [] c = "d" -> 13 [] c = "e" -> 14 [] c = "f" -> 15
      [] OTHER -> 0

IsHexText(t) == \A i \in 1..Len(t) : IsHexChar(t[i])

\* Number.prototype.toString(): decimal digits.
RECURSIVE DecText(_)
DecText(n) == IF n < 10 THEN <<HexChars[n + 1]>>
              ELSE DecText(n \div 10) \o <<HexChars[(n % 10) + 1]>>

\* --------------------------------------------------------- bn.js, Buffer
\* BN.prototype.toString(16): the hex digits of n, none of them padding.
RECURSIVE HexDigits(_)
HexDigits(n) == IF n < 16 THEN <<HexChars[n + 1]>>
                ELSE HexDigits(n \div 16) \o <<HexChars[(n % 16) + 1]>>

\* The zeros BN.prototype.toString puts first: to a multiple of padding.
ZeroPad(t, padding) ==
    [i \in 1..((padding - (Len(t) % padding)) % padding) |-> "0"] \o t

\* bn.toString('hex', padding); bn.toString('hex') is padding 1.
BNToString(n, padding) == ZeroPad(HexDigits(n), padding)

\* new BN(text, 16): the digits read in base 16, leading zeros allowed.
RECURSIVE ReadFirst(_, _, _)
ReadFirst(t, k, base) ==
    IF k = 0 THEN 0 ELSE ReadFirst(t, k - 1, base) * base + HexVal(t[k])

ReadDigits(t, base) == ReadFirst(t, Len(t), base)

\* The mutant of BNFromHex: the digits are read in base 10.
BNFromDec(t) == ReadDigits(t, 10)

BNFromHex(t) == ReadDigits(t, 16)

\* new Buffer(text, 'hex'): one byte for each two hex characters.
HexPairs(t) ==
    [i \in 1..(Len(t) \div 2) |-> HexVal(t[2 * i - 1]) * 16 + HexVal(t[2 * i])]

BufferFromHex(t) == IF IsHexText(t) /\ Len(t) % 2 = 0
                    THEN <<"raw", HexPairs(t)>>
                    ELSE <<"bad", t>>

\* new Buffer(text, 'utf8').
BufferFromUtf8(t) == <<"utf8", t>>

BytesToHex(bytes) ==
    [i \in 1..(2 * Len(bytes)) |->
        IF i % 2 = 1 THEN HexChars[(bytes[(i + 1) \div 2] \div 16) + 1]
        ELSE HexChars[(bytes[i \div 2] % 16) + 1]]

\* buffer.toString('hex'); the hex of a digest is one opaque element.
BufferToHex(buf) == IF buf[1] = "raw" THEN BytesToHex(buf[2]) ELSE <<ToString(buf)>>

\* crypto.createHash(alg).update(buf).digest(): symbolic, collision free.
Hash(alg, buf) == <<"digest", <<alg, buf>>>>

\* The mutant of Sha256Hex: the text is passed on unhashed.
Sha256HexPlain(t) == t

\* storj.utils.sha256(text) and MetaDiskClient.prototype._sha256(text).
Sha256Hex(t) == BufferToHex(Hash("sha256", BufferFromUtf8(t)))

\* ---------------------------------------------------------------- curve
\* elliptic.curves.secp256k1 scaled down: y^2 = x^3 + 7 over GF(43), a group
\* of prime order 31 generated by G.
Curve == [p |-> 43, b |-> 7, n |-> 31, gx |-> 2, gy |-> 12]

Infinity == [inf |-> TRUE, x |-> 0, y |-> 0]
Point(x, y) == [inf |-> FALSE, x |-> x, y |-> y]

ModInv(v) == CHOOSE i \in 1..(Curve.p - 1) : (i * v) % Curve.p = 1

PointAdd(P, Q) ==
    IF P.inf THEN Q
    ELSE IF Q.inf THEN P
    ELSE IF P.x = Q.x /\ (P.y + Q.y) % Curve.p = 0 THEN Infinity
    ELSE LET p == Curve.p
             lam == IF P.x = Q.x
                    THEN (3 * P.x * P.x * ModInv((2 * P.y) % p)) % p
                    ELSE ((Q.y + p - P.y) * ModInv((Q.x + p - P.x) % p)) % p
             x3 == (lam * lam + 2 * p - P.x - Q.x) % p
             y3 == (lam * (P.x + p - x3) + p - P.y) % p
         IN Point(x3, y3)

\* G, 2G, ..., kG.
RECURSIVE Multiples(_)
Multiples(k) ==
    IF k = 1 THEN <<Point(Curve.gx, Curve.gy)>>
    ELSE LET prev == Multiples(k - 1)
         IN Append(prev, PointAdd(prev[k - 1], Point(Curve.gx, Curve.gy)))

GMultiples == Multiples(Curve.n)

\* ec.g.mul(k), for a scalar in 0 .. n.
GMul(k) == IF k = 0 THEN Infinity ELSE GMultiples[k]

OnCurve(x, y) == (y * y) % Curve.p = (x * x * x + Curve.b) % Curve.p

\* -------------------------------------------------------------- KeyPair
\* A KeyPair instance: elliptic's key pair, which holds the private scalar.
\* KeyPair(privkey) with a private key: ecdsa.keyFromPrivate(privkey).
KeyPairFromPrivate(privkey) == [priv |-> BNFromHex(privkey)]

\* KeyPair(): ecdsa.genKeyPair(), with the scalar the generator drew.
KeyPairGenerated(d) == [priv |-> d]

\* this._keypair.getPublic(): the point priv * G.
getPublic(kp) == GMul(kp.priv % Curve.n)

getPrivateKey(kp) == BNToString(kp.priv, 1)

\* The mutant of getPublicKey: the parity is taken from the x-coordinate.
getPublicKeyParityOfX(kp) ==
    LET xbuf == BufferFromHex(BNToString(getPublic(kp).x, 64))
    IN BufferToHex(<<"raw", <<IF xbuf[2][Len(xbuf[2])] % 2 = 1 THEN 3 ELSE 2>> \o xbuf[2]>>)

getPublicKey(kp) ==
    LET pubkeyobj == getPublic(kp)
        xbuf == BufferFromHex(BNToString(pubkeyobj.x, 64))
        ybuf == BufferFromHex(BNToString(pubkeyobj.y, 64))
        pubkey == IF ybuf[2][Len(ybuf[2])] % 2 = 1
                  THEN <<"raw", <<3>> \o xbuf[2]>>
                  ELSE <<"raw", <<2>> \o xbuf[2]>>
    IN BufferToHex(pubkey)

\* The mutant of getNodeIdFromPublicKey: the hex text itself is hashed.
getNodeIdFromHexText(pubkey) ==
    BufferToHex(Hash("rmd160", Hash("sha256", BufferFromUtf8(pubkey))))

getNodeIdFromPublicKey(pubkey) ==
    LET pubhash == Hash("sha256", BufferFromHex(pubkey))
        pubripe == Hash("rmd160", pubhash)
    IN BufferToHex(pubripe)

getNodeID(kp) == getNodeIdFromPublicKey(getPublicKey(kp))

\* ecdsa.sign(msg, key).toDER('hex'): the signature of digest msg by the
\* scalar read from the hex text key.  elliptic draws its nonce from msg and
\* key alone (RFC 6979), so the signature is a function of the two.
EcSignDER(msg, key) == <<"derhex", [z |-> msg, d |-> BNFromHex(key)]>>

KeyPair_sign(kp, data) ==
    EcSignDER(BufferToHex(Hash("sha256", BufferFromUtf8(data))), getPrivateKey(kp))

\* new Buffer(signature, 'hex') of a DER signature in hex.
SigBufferFromHex(signature) ==
    IF signature[1] = "derhex" THEN <<"der", signature[2]>> ELSE <<"bad", signature[2]>>

\* curve.decodePoint(bytes): a compressed point, y found from its parity.
DecodePoint(buf) ==
    LET bytes == buf[2]
        x == BNFromHex(BytesToHex(Tail(bytes)))
        ys == {y \in 0..(Curve.p - 1) : OnCurve(x, y) /\ y % 2 = bytes[1] - 2}
    IN IF buf[1] = "raw" /\ Len(bytes) = 33 /\ bytes[1] \in {2, 3}
          /\ ~(\E i \in 2..32 : bytes[i] # 0) /\ bytes[33] < Curve.p /\ ys # {}
       THEN Point(x, CHOOSE y \in ys : TRUE)
       ELSE Infinity

\* ecdsa.verify(msg, signature, pubkey): "throw" for a key that is no point or
\* a signature that is no DER, else whether the signature is of msg by the
\* scalar of that point.
EcVerify(msg, signature, pubkey) ==
    LET Q == DecodePoint(pubkey)
    IN IF Q.inf \/ signature[1] # "der" THEN "throw"
       ELSE IF signature[2].z = msg /\ GMul(signature[2].d % Curve.n) = Q
            THEN "true" ELSE "false"

\* The mutant of KeyPair_verify: the public key is not looked at.
KeyPair_verifyAnyKey(data, pubkey, signature) ==
    LET sig == SigBufferFromHex(signature)
    IN IF sig[1] # "der" THEN "throw"
       ELSE IF sig[2].z = BufferToHex(Hash("sha256", BufferFromUtf8(data)))
            THEN "true" ELSE "false"

\* The mutant of KeyPair_verify: the message is decoded as hex, not UTF-8.
KeyPair_verifyHexData(data, pubkey, signature) ==
    EcVerify(BufferToHex(Hash("sha256", BufferFromHex(data))),
             SigBufferFromHex(signature),
             BufferFromHex(pubkey))

KeyPair_verify(data, pubkey, signature) ==
    EcVerify(BufferToHex(Hash("sha256", BufferFromUtf8(data))),
             SigBufferFromHex(signature),
             BufferFromHex(pubkey))

\* ------------------------------------------------------------ literals
K_nonce == <<"_", "_", "n", "o", "n", "c", "e">>
K_email == <<"e", "m", "a", "i", "l">>
K_password == <<"p", "a", "s", "s", "w", "o", "r", "d">>
K_redirect == <<"r", "e", "d", "i", "r", "e", "c", "t">>
K_pubkey == <<"p", "u", "b", "k", "e", "y">>
K_key == <<"k", "e", "y">>
K_operation == <<"o", "p", "e", "r", "a", "t", "i", "o", "n">>
K_name == <<"n", "a", "m", "e">>
K_storage == <<"s", "t", "o", "r", "a", "g", "e">>
K_hash == <<"h", "a", "s", "h">>
M_GET == <<"G", "E", "T">>
M_POST == <<"P", "O", "S", "T">>
M_PUT == <<"P", "U", "T">>
M_PATCH == <<"P", "A", "T", "C", "H">>
M_DELETE == <<"D", "E", "L", "E", "T", "E">>
P_root == <<"/">>
P_users == <<"/", "u", "s", "e", "r", "s">>
P_keys == <<"/", "k", "e", "y", "s">>
P_buckets == <<"/", "b", "u", "c", "k", "e", "t", "s">>
P_frames == <<"/", "f", "r", "a", "m", "e", "s">>
P_files == <<"/", "f", "i", "l", "e", "s">>
P_tokens == <<"/", "t", "o", "k", "e", "n", "s">>
Slash == <<"/">>
NL == <<"\n">>

Methods == {M_GET, M_POST, M_PUT, M_PATCH, M_DELETE}

\* ------------------------------------------------------ values, objects
Str(t) == [t |-> "str", s |-> t, n |-> 0]
Num(n) == [t |-> "num", s |-> <<>>, n |-> n]
Undefined == [t |-> "undef", s |-> <<>>, n |-> 0]

Has(obj, k) == \E i \in 1..Len(obj) : obj[i].k = k

\* obj[k], undefined for a key the object has not.
Get(obj, k) == IF Has(obj, k) THEN obj[CHOOSE i \in 1..Len(obj) : obj[i].k = k].v
               ELSE Undefined

\* obj[k] = v: in place for a key the object has, else a new last property.
Set(obj, k, v) ==
    IF Has(obj, k)
    THEN [i \in 1..Len(obj) |-> IF obj[i].k = k THEN [k |-> k, v |-> v] ELSE obj[i]]
    ELSE Append(obj, [k |-> k, v |-> v])

\* String(value) of a string or a number.
ValueText(v) == IF v.t = "num" THEN DecText(v.n) ELSE v.s

\* ------------------------------------------------------- JSON.stringify
JSONEscapeChar(c) == IF c = "\"" THEN <<"\\", "\"">>
                     ELSE IF c = "\\" THEN <<"\\", "\\">>
                     ELSE IF c = "\n" THEN <<"\\", "n">>
                     ELSE <<c>>

RECURSIVE JSONEscape(_)
JSONEscape(t) == IF t = <<>> THEN <<>> ELSE JSONEscapeChar(t[1]) \o JSONEscape(Tail(t))

JSONQuote(t) == <<"\"">> \o JSONEscape(t) \o <<"\"">>

JSONValue(v) == IF v.t = "num" THEN DecText(v.n) ELSE JSONQuote(v.s)

\* The properties JSON.stringify writes: those whose value is not undefined.
RECURSIVE Defined(_)
Defined(obj) == IF obj = <<>> THEN <<>>
                ELSE (IF obj[1].v.t = "undef" THEN <<>> ELSE <<obj[1]>>) \o Defined(Tail(obj))

RECURSIVE JSONMembers(_)
JSONMembers(obj) ==
    IF obj = <<>> THEN <<>>
    ELSE JSONQuote(obj[1].k) \o <<":">> \o JSONValue(obj[1].v)
         \o (IF Len(obj) > 1 THEN <<",">> ELSE <<>>) \o JSONMembers(Tail(obj))

JSONStringify(obj) == <<"{">> \o JSONMembers(Defined(obj)) \o <<"}">>

\* ------------------------------------------------ querystring.stringify
\* querystring.escape: encodeURIComponent, on the characters the model uses.
QSEscapeChar(c) == IF c = " " THEN <<"%", "2", "0">>
                   ELSE IF c = "\"" THEN <<"%", "2", "2">>
                   ELSE IF c = "&" THEN <<"%", "2", "6">>
                   ELSE IF c = "/" THEN <<"%", "2", "F">>
                   ELSE IF c = "=" THEN <<"%", "3", "D">>
                   ELSE IF c = "@" THEN <<"%", "4", "0">>
                   ELSE IF c = "\\" THEN <<"%", "5", "C">>
                   ELSE IF c = "\n" THEN <<"%", "0", "A">>
                   ELSE <<c>>

RECURSIVE QSEscape(_)
QSEscape(t) == IF t = <<>> THEN <<>> ELSE QSEscapeChar(t[1]) \o QSEscape(Tail(t))

\* key=value joined by &; a value that is undefined is written empty.
RECURSIVE QSStringify(_)
QSStringify(obj) ==
    IF obj = <<>> THEN <<>>
    ELSE QSEscape(obj[1].k) \o <<"=">>
         \o (IF obj[1].v.t = "undef" THEN <<>> ELSE QSEscape(ValueText(obj[1].v)))
         \o (IF Len(obj) > 1 THEN <<"&">> ELSE <<>>) \o QSStringify(Tail(obj))

\* ------------------------------------------------------- request options
\* What a client hands to request(): opts.method, opts.uri, opts.qs (when
\* hasQs), opts.json (an object when jsonIsObj, else true), opts.headers and
\* opts.auth as _authenticate leaves them.
NoSignature == <<"none", [z |-> <<>>, d |-> 0]>>

BareOpts(method, path, query, params) ==
    [method |-> method, uri |-> path,
     hasQs |-> query, qs |-> IF query THEN params ELSE <<>>,
     jsonIsObj |-> ~query, json |-> IF query THEN <<>> ELSE params,
     hasHeaders |-> FALSE, xpubkey |-> <<>>, xsignature |-> NoSignature,
     hasAuth |-> FALSE, user |-> <<>>, pass |-> <<>>]

\* JSON.stringify(opts.json): of the object, or of true.
JSONOfOpts(opts) == IF opts.jsonIsObj THEN JSONStringify(opts.json)
                    ELSE <<"t", "r", "u", "e">>

\* [opts.method, opts.uri, payload].join('\n')
Contract(method, uri, payload) == method \o NL \o uri \o NL \o payload

\* The mutant of Client_usesQueryToSign: DELETE is signed as a JSON request.
Client_usesQueryToSignGetOnly(method) == method = M_GET

\* ['GET', 'DELETE'].indexOf(opts.method) !== -1, in _authenticate.
Client_usesQueryToSign(method) == method \in {M_GET, M_DELETE}

\* ['GET', 'DELETE'].indexOf(method) !== -1, in _request.
Client_usesQuery(method) == method \in {M_GET, M_DELETE}

MetaDisk_usesQueryToSign(method) == method \in {M_GET, M_DELETE}

MetaDisk_usesQuery(method) == method \in {M_GET, M_DELETE}

\* The x-pubkey and x-signature headers of a key pair over a contract.
WithSignature(opts, keypair, contract) ==
    [opts EXCEPT !.hasHeaders = TRUE,
                 !.xpubkey = getPublicKey(keypair),
                 !.xsignature = KeyPair_sign(keypair, contract)]

WithBasicAuth(opts, email, password) ==
    [opts EXCEPT !.hasAuth = TRUE, !.user = email, !.pass = Sha256Hex(password)]

\* The mutant of Client_authenticate: the second branch is no else-branch.
Client_authenticateBoth(options, opts) ==
    LET payload == IF Client_usesQueryToSign(opts.method)
                   THEN QSStringify(opts.qs) ELSE JSONOfOpts(opts)
        contract == Contract(opts.method, opts.uri, payload)
        o1 == IF options.keypair # <<>>
              THEN WithSignature(opts, options.keypair[1], contract) ELSE opts
        o2 == IF options.hasBasicauth
              THEN WithBasicAuth(o1, options.email, options.password) ELSE o1
    IN [opts |-> o2, signed |-> options.keypair # <<>>,
        contract |-> IF options.keypair # <<>> THEN contract ELSE <<>>]

\* Client.prototype._authenticate: the options it returns, whether it signed
\* and the contract it handed to keypair.sign.
Client_authenticate(options, opts) ==
    IF options.keypair # <<>>
    THEN LET payload == IF Client_usesQueryToSign(opts.method)
                        THEN QSStringify(opts.qs) ELSE JSONOfOpts(opts)
             contract == Contract(opts.method, opts.uri, payload)
         IN [opts |-> WithSignature(opts, options.keypair[1], contract),
             signed |-> TRUE, contract |-> contract]
    ELSE IF options.hasBasicauth
    THEN [opts |-> WithBasicAuth(opts, options.email, options.password),
          signed |-> FALSE, contract |-> <<>>]
    ELSE [opts |-> opts, signed |-> FALSE, contract |-> <<>>]

\* The mutant of MetaDisk_authenticate: an email alone sets basic auth.
MetaDisk_authenticateEmailOnly(options, opts) ==
    IF options.privkey # <<>>
    THEN LET payload == IF MetaDisk_usesQueryToSign(opts.method)
                        THEN QSStringify(opts.qs) ELSE JSONOfOpts(opts)
             keypair == KeyPairFromPrivate(options.privkey)
             contract == Contract(opts.method, opts.uri, payload)
         IN [opts |-> WithSignature(opts, keypair, contract),
             signed |-> TRUE, contract |-> contract]
    ELSE IF options.email # <<>> \/ options.password # <<>>
    THEN [opts |-> WithBasicAuth(opts, options.email, options.password),
          signed |-> FALSE, contract |-> <<>>]
    ELSE [opts |-> opts, signed |-> FALSE, contract |-> <<>>]

\* MetaDiskClient.prototype._authenticate.
MetaDisk_authenticate(options, opts) ==
    IF options.privkey # <<>>
    THEN LET payload == IF MetaDisk_usesQueryToSign(opts.method)
                        THEN QSStringify(opts.qs) ELSE JSONOfOpts(opts)
             keypair == KeyPairFromPrivate(options.privkey)
             contract == Contract(opts.method, opts.uri, payload)
         IN [opts |-> WithSignature(opts, keypair, contract),
             signed |-> TRUE, contract |-> contract]
    ELSE IF options.email # <<>> /\ options.password # <<>>
    THEN [opts |-> WithBasicAuth(opts, options.email, options.password),
          signed |-> FALSE, contract |-> <<>>]
    ELSE [opts |-> opts, signed |-> FALSE, contract |-> <<>>]

\* The mutant of Client_request: the nonce is set after the request is signed.
Client_requestNonceLate(options, method, path, params, t) ==
    LET a == Client_authenticate(options,
                 BareOpts(method, path, Client_usesQuery(method), params))
        withNonce == Set(params, K_nonce, Num(t))
    IN [params |-> withNonce, signed |-> a.signed, contract |-> a.contract,
        opts |-> [a.opts EXCEPT !.qs = IF a.opts.hasQs THEN withNonce ELSE <<>>,
                                !.json = IF a.opts.jsonIsObj THEN withNonce ELSE <<>>]]

\* The mutant of Client_request for the nonce of a reused object: an object
\* that has a nonce keeps it.
Client_requestStaleNonce(options, method, path, params, t) ==
    LET withNonce == IF Has(params, K_nonce) THEN params
                     ELSE Set(params, K_nonce, Num(t))
        a == Client_authenticate(options,
                 BareOpts(method, path, Client_usesQuery(method), withNonce))
    IN [params |-> withNonce, signed |-> a.signed, contract |-> a.contract,
        opts |-> a.opts]

\* Client.prototype._request, to its call of request(opts): the parameter
\* object with its nonce, and the options request() is called with.
Client_request(options, method, path, params, t) ==
    LET withNonce == Set(params, K_nonce, Num(t))
        a == Client_authenticate(options,
                 BareOpts(method, path, Client_usesQuery(method), withNonce))
    IN [params |-> withNonce, signed |-> a.signed, contract |-> a.contract,
        opts |-> a.opts]

\* MetaDiskClient.prototype._request, to its call of request(opts).
MetaDisk_request(options, method, path, params, t) ==
    LET withNonce == Set(params, K_nonce, Num(t))
        a == MetaDisk_authenticate(options,
                 BareOpts(method, path, MetaDisk_usesQuery(method), withNonce))
    IN [params |-> withNonce, signed |-> a.signed, contract |-> a.contract,
        opts |-> a.opts]

\* ----------------------------------------------------- API operations
\* What an operation hands to _request: method, path and parameter object;
\* byRef when the object is the caller's own, password the password the
\* caller gave (createUser).
Call(method, path, params, byRef, password) ==
    [method |-> method, path |-> path, params |-> params, byRef |-> byRef,
     password |-> password]

Obj1(k, v) == <<[k |-> k, v |-> v]>>

ClientOps == {"getInfo", "createUser", "getPublicKeys", "addPublicKey",
              "destroyPublicKey", "getBuckets", "getBucketById", "createBucket",
              "destroyBucketById", "updateBucketById", "listFilesInBucket",
              "createToken", "removeFileFromBucket", "createFileStagingFrame",
              "getFileStagingFrames", "getFileStagingFrameById",
              "destroyFileStagingFrameById", "addShardToFileStagingFrame"}

MetaDiskOps == {"getInfo", "createUser", "getPublicKeys", "addPublicKey",
                "destroyPublicKey", "getBuckets", "getBucketById", "createBucket",
                "destroyBucketById", "updateBucketById", "createToken"}

\* The operations of Client.prototype built on _request.  a: the arguments
\* of the call; data: the caller's object, for the operations that take one
\* (a.withData: the caller passes it).
Client_endpoint(op, a, data) ==
    CASE op = "getInfo" -> Call(M_GET, P_root, <<>>, FALSE, <<>>)
      [] op = "createUser" ->
            Call(M_POST, P_users,
                 <<[k |-> K_email, v |-> Str(a.email)],
                   [k |-> K_password, v |-> Str(Sha256Hex(a.password))],
                   [k |-> K_redirect, v |-> a.redirect],
                   [k |-> K_pubkey, v |-> a.pubkeyOpt]>>, FALSE, a.password)
      [] op = "getPublicKeys" -> Call(M_GET, P_keys, <<>>, FALSE, <<>>)
      [] op = "addPublicKey" ->
            Call(M_POST, P_keys, Obj1(K_key, Str(a.pubkey)), FALSE, <<>>)
      [] op = "destroyPublicKey" ->
            Call(M_DELETE, P_keys \o Slash \o a.pubkey, <<>>, FALSE, <<>>)
      [] op = "getBuckets" -> Call(M_GET, P_buckets, <<>>, FALSE, <<>>)
      [] op = "getBucketById" ->
            Call(M_GET, P_buckets \o Slash \o a.id, <<>>, FALSE, <<>>)
      [] op = "createBucket" ->
            Call(M_POST, P_buckets, IF a.withData THEN data ELSE <<>>,
                 a.withData, <<>>)
      [] op = "destroyBucketById" ->
            Call(M_DELETE, P_buckets \o Slash \o a.id, <<>>, FALSE, <<>>)
      [] op = "updateBucketById" ->
            Call(M_PATCH, P_buckets \o Slash \o a.id,
                 IF a.withData THEN data ELSE <<>>, a.withData, <<>>)
      [] op = "listFilesInBucket" ->
            Call(M_GET, P_buckets \o Slash \o a.id \o P_files, <<>>, FALSE, <<>>)
      [] op = "createToken" ->
            Call(M_POST, P_buckets \o Slash \o a.id \o P_tokens,
                 Obj1(K_operation, Str(a.operation)), FALSE, <<>>)
      [] op = "removeFileFromBucket" ->
            Call(M_DELETE, P_buckets \o Slash \o a.id \o P_files \o Slash \o a.hash,
                 <<>>, FALSE, <<>>)
      [] op = "createFileStagingFrame" -> Call(M_POST, P_frames, <<>>, FALSE, <<>>)
      [] op = "getFileStagingFrames" -> Call(M_GET, P_frames, <<>>, FALSE, <<>>)
      [] op = "getFileStagingFrameById" ->
            Call(M_GET, P_frames \o Slash \o a.id, <<>>, FALSE, <<>>)
      [] op = "destroyFileStagingFrameById" ->
            Call(M_DELETE, P_frames \o Slash \o a.id, <<>>, FALSE, <<>>)
      [] op = "addShardToFileStagingFrame" ->
            Call(M_PUT, P_frames \o Slash \o a.id, data, TRUE, <<>>)

\* The operations of MetaDiskClient.prototype built on _request.  createUser
\* takes the caller's object and replaces its password by the hash.
MetaDisk_endpoint(op, a, data) ==
    CASE op = "getInfo" -> Call(M_GET, P_root, <<>>, FALSE, <<>>)
      [] op = "createUser" ->
            Call(M_POST, P_users,
                 Set(data, K_password, Str(Sha256Hex(Get(data, K_password).s))),
                 TRUE, Get(data, K_password).s)
      [] op = "getPublicKeys" -> Call(M_GET, P_keys, <<>>, FALSE, <<>>)
      [] op = "addPublicKey" ->
            Call(M_POST, P_keys, Obj1(K_key, Str(a.pubkey)), FALSE, <<>>)
      [] op = "destroyPublicKey" ->
            Call(M_DELETE, P_keys \o Slash \o a.pubkey, <<>>, FALSE, <<>>)
      [] op = "getBuckets" -> Call(M_GET, P_buckets, <<>>, FALSE, <<>>)
      [] op = "getBucketById" ->
            Call(M_GET, P_buckets \o Slash \o a.id, <<>>, FALSE, <<>>)
      [] op = "createBucket" ->
            Call(M_POST, P_buckets, IF a.withData THEN data ELSE <<>>,
                 a.withData, <<>>)
      [] op = "destroyBucketById" ->
            Call(M_DELETE, P_buckets \o Slash \o a.id, <<>>, FALSE, <<>>)
      [] op = "updateBucketById" ->
            Call(M_PATCH, P_buckets \o Slash \o a.id,
                 IF a.withData THEN data ELSE <<>>, a.withData, <<>>)
      [] op = "createToken" ->
            Call(M_POST, P_buckets \o Slash \o a.id \o P_tokens,
                 Obj1(K_operation, Str(a.operation)), FALSE, <<>>)

\* ------------------------------------------------------------- inputs
Email1 == <<"u", "@", "x">>
Password1 == <<"p", "w">>
Password2 == <<"s", "e", "c">>
BucketId == <<"b", "1">>
FileHash == <<"h", "1">>
PubkeyArg == <<"0", "2", "a", "b">>
OperationArg == <<"P", "U", "S", "H">>

\* The scalars of the key pairs a client is configured with.
OptionKeys == {26}

\* The objects a caller passes: none of its own keys, a name that needs
\* escaping with a value left undefined, and the data of a user.
DataObjs ==
    { <<>>,
      <<[k |-> K_name, v |-> Str(<<"a", " ", "&", "\"">>)],
        [k |-> K_storage, v |-> Undefined]>>,
      <<[k |-> K_email, v |-> Str(Email1)],
        [k |-> K_password, v |-> Str(Password2)]>> }

Args == [id : {BucketId}, hash : {FileHash}, pubkey : {PubkeyArg},
         email : {Email1}, password : {Password1}, redirect : {Undefined},
         pubkeyOpt : {Undefined, Str(PubkeyArg)}, operation : {OperationArg},
         withData : BOOLEAN]

\* The arguments an operation reads.
ArgsOf(op) ==
    {a \in Args :
        /\ op \notin {"createBucket", "updateBucketById"} => a.withData
        /\ op # "createUser" => a.pubkeyOpt = Undefined}

\* new Client(uri, options): options.keypair, options.basicauth with its
\* email and password.
ClientOptions ==
    { [keypair |-> kp, hasBasicauth |-> b,
       email |-> IF b THEN Email1 ELSE <<>>,
       password |-> IF b THEN Password1 ELSE <<>>, privkey |-> <<>>] :
      kp \in {<<>>} \cup {<<KeyPairGenerated(d)>> : d \in OptionKeys},
      b \in BOOLEAN }

\* new MetaDiskClient(options): options.privkey, options.email,
\* options.password, each given or not.
MetaDiskOptions ==
    { [keypair |-> <<>>, hasBasicauth |-> FALSE, email |-> e, password |-> pw,
       privkey |-> k] :
      e \in {<<>>, Email1}, pw \in {<<>>, Password1},
      k \in {<<>>} \cup {getPrivateKey(KeyPairGenerated(d)) : d \in OptionKeys} }

\* The scalars ec.genKeyPair() draws in the runs: 21 ("15"), whose point
\* (42, 36) has an even y and an x of two hex digits, and 26 ("1a"), whose
\* point (12, 31) has an odd y and an x of one hex digit.
GenKeys == {21, 26}

\* "GET\n/buckets\n", the contract of getBuckets without a query, and a
\* message one character longer.
Messages == {Contract(M_GET, P_buckets, <<>>), Contract(M_GET, P_buckets, <<"x">>)}

\* ------------------------------------------------------------- state
VARIABLES
    gen,        \* "client": lib/client.js Client, "index": index.js MetaDiskClient
    options,    \* this._options of the client
    now,        \* the reading of Date.now()
    callerObj,  \* an object the caller owns and passes to the operations
    last,       \* the request most recently handed to request(), with the call
    hashed,     \* the times MetaDiskClient's createUser hashed callerObj's password
    kps,        \* the KeyPair instances constructed so far
    keyfile,    \* the contents of KEYPATH, empty when there is no such file
    registered, \* the public key the bridge accepted at login
    ret,        \* the KeyPair call most recently made, with what it returned
    call,       \* the API call under way: its request, the answer, its promise
    store,      \* the storeFileInBucket call under way
    resolve,    \* the resolveFileFromPointers call of a Client under way
    fetch,      \* the resolveFileFromPointers call of a MetaDiskClient under way
    cli         \* the command of the command line tool under way, and its files

vars == <<gen, options, now, callerObj, last, hashed, kps, keyfile, registered, ret,
          call, store, resolve, fetch, cli>>
laterVars == <<resolve, fetch, cli>>
clientVars == <<gen, options, now, callerObj, last, hashed>>
keyVars == <<kps, keyfile, registered, ret>>

NoRequest ==
    [issued |-> FALSE, op |-> "", method |-> <<>>, path |-> <<>>, args |-> <<>>,
     byRef |-> FALSE, nonce |-> 0, password |-> <<>>, signed |-> FALSE,
     contract |-> <<>>, opts |-> BareOpts(<<>>, <<>>, FALSE, <<>>)]

NoCall ==
    [op |-> "", kp |-> 0, src |-> 0, data |-> <<>>, signed |-> <<>>,
     pubkey |-> <<>>, signature |-> NoSignature, text |-> <<>>, verdict |-> ""]

InitKeys == /\ kps = <<>>
            /\ keyfile = <<>>
            /\ registered = <<>>
            /\ ret = NoCall

InitClient == /\ gen \in {"client", "index"}
              /\ options \in IF gen = "client" THEN ClientOptions ELSE MetaDiskOptions
              /\ now = 0
              /\ callerObj \in DataObjs
              /\ last = NoRequest
              /\ hashed = 0

\* ------------------------------------------------------ client actions
\* Time passes: Date.now() reads one more.
Tick == /\ now < MaxClock
        /\ now' = now + 1
        /\ UNCHANGED <<gen, options, callerObj, last, hashed, keyVars, call, store, laterVars>>

\* this._request(method, path, params) of the client's generation.
DoRequest(method, path, params) ==
    IF gen = "client" THEN Client_request(options, method, path, params, now)
    ELSE MetaDisk_request(options, method, path, params, now)

\* The request is handed to request(); an object of the caller's now holds
\* the nonce.
Issue(op, c) ==
    \E r \in {DoRequest(c.method, c.path, c.params)} :
       /\ last' = [issued |-> TRUE, op |-> op, method |-> c.method,
                   path |-> c.path, args |-> c.params, byRef |-> c.byRef,
                   nonce |-> now,
                   password |-> c.password, signed |-> r.signed,
                   contract |-> r.contract, opts |-> r.opts]
       /\ callerObj' = IF c.byRef THEN r.params ELSE callerObj
       /\ hashed' = IF gen = "index" /\ op = "createUser" THEN hashed + 1 ELSE hashed
       /\ UNCHANGED <<gen, options, now, keyVars, call, store, laterVars>>

\* A call of one of the API operations.
ApiCall(op, a) ==
    /\ op \in IF gen = "client" THEN ClientOps ELSE MetaDiskOps
    /\ (gen = "index" /\ op = "createUser") =>
          Get(callerObj, K_password).t = "str" /\ hashed < MaxHashes
    /\ \E c \in {IF gen = "client" THEN Client_endpoint(op, a, callerObj)
                 ELSE MetaDisk_endpoint(op, a, callerObj)} : Issue(op, c)

\* A call of _request itself, with an object of the caller's.
Request(method, path) ==
    /\ Issue("_request", Call(method, path, callerObj, TRUE, <<>>))

NextClient == \/ Tick
              \/ \E op \in ClientOps : \E a \in ArgsOf(op) : ApiCall(op, a)
              \/ \E method \in Methods : Request(method, P_buckets)

\* ----------------------------------------------------- KeyPair actions
\* KeyPair(): a generated key pair.
Generate(d) ==
    /\ Len(kps) < MaxKeyPairs
    /\ kps' = Append(kps, KeyPairGenerated(d))
    /\ ret' = [NoCall EXCEPT !.op = "generate", !.kp = Len(kps) + 1]
    /\ UNCHANGED <<keyfile, registered, clientVars, call, store, laterVars>>

\* KeyPair(kp.getPrivateKey()): a key pair restored from another's key.
Restore(i) ==
    /\ Len(kps) < MaxKeyPairs
    /\ kps' = Append(kps, KeyPairFromPrivate(getPrivateKey(kps[i])))
    /\ ret' = [NoCall EXCEPT !.op = "restore", !.kp = Len(kps) + 1, !.src = i]
    /\ UNCHANGED <<keyfile, registered, clientVars, call, store, laterVars>>

\* ACTIONS.login when the bridge accepts the key: the public key of a
\* generated key pair is registered and its private key written to KEYPATH.
LoginPaired(d) ==
    /\ keyfile = <<>>
    /\ LET keypair == KeyPairGenerated(d)
       IN /\ registered' = getPublicKey(keypair)
          /\ keyfile' = getPrivateKey(keypair)
    /\ ret' = [NoCall EXCEPT !.op = "login"]
    /\ UNCHANGED <<kps, clientVars, call, store, laterVars>>

\* loadKeyPair(): the key pair of the private key in KEYPATH.
LoadKeyPair ==
    /\ keyfile # <<>>
    /\ Len(kps) < MaxKeyPairs
    /\ kps' = Append(kps, KeyPairFromPrivate(keyfile))
    /\ ret' = [NoCall EXCEPT !.op = "load", !.kp = Len(kps) + 1]
    /\ UNCHANGED <<keyfile, registered, clientVars, call, store, laterVars>>

GetPrivateKey(i) ==
    /\ ret' = [NoCall EXCEPT !.op = "getPrivateKey", !.kp = i,
                             !.text = getPrivateKey(kps[i])]
    /\ UNCHANGED <<kps, keyfile, registered, clientVars, call, store, laterVars>>

GetPublicKey(i) ==
    /\ ret' = [NoCall EXCEPT !.op = "getPublicKey", !.kp = i,
                             !.text = getPublicKey(kps[i])]
    /\ UNCHANGED <<kps, keyfile, registered, clientVars, call, store, laterVars>>

GetNodeID(i) ==
    /\ ret' = [NoCall EXCEPT !.op = "getNodeID", !.kp = i,
                             !.text = getNodeID(kps[i])]
    /\ UNCHANGED <<kps, keyfile, registered, clientVars, call, store, laterVars>>

Sign(i, data) ==
    /\ ret' = [NoCall EXCEPT !.op = "sign", !.kp = i, !.signed = data,
                             !.signature = KeyPair_sign(kps[i], data)]
    /\ UNCHANGED <<kps, keyfile, registered, clientVars, call, store, laterVars>>

\* verify(data, pubkey, signature), which reads nothing of the instance it
\* is called on, with the public key of key pair j and the signature key
\* pair k made of a message.
Verify(data, j, k, signed) ==
    \E pubkey \in {getPublicKey(kps[j])}, signature \in {KeyPair_sign(kps[k], signed)} :
       /\ ret' = [NoCall EXCEPT !.op = "verify", !.kp = j, !.src = k, !.data = data,
                                !.signed = signed,
                                !.pubkey = pubkey, !.signature = signature,
                                !.verdict = KeyPair_verify(data, pubkey, signature)]
       /\ UNCHANGED <<kps, keyfile, registered, clientVars, call, store, laterVars>>

NextKeys ==
    \/ \E d \in GenKeys : Generate(d)
    \/ \E i \in 1..Len(kps) : Restore(i)
    \/ \E d \in GenKeys : LoginPaired(d)
    \/ LoadKeyPair
    \/ \E i \in 1..Len(kps) : GetPrivateKey(i)
    \/ \E i \in 1..Len(kps) : GetPublicKey(i)
    \/ \E i \in 1..Len(kps) : GetNodeID(i)
    \/ \E i \in 1..Len(kps), data \in Messages : Sign(i, data)
    \/ \E j, k \in 1..Len(kps), data, signed \in Messages :
          Verify(data, j, k, signed)

\* What request() sends of the options it is called with: the query string
\* of opts.qs, or the JSON body of opts.json.
SentParams(opts) == IF opts.hasQs THEN opts.qs ELSE opts.json

SentPayload(opts) == IF opts.hasQs THEN QSStringify(opts.qs) ELSE JSONOfOpts(opts)

\* ------------------------------------------- answers and their promises
\* What the callback of request() is called with: (err, res, body).  The
\* body under json: true is what the server sent: nothing or JSON null, a
\* text that is no JSON, or an object, with or without an error property.
NoError == <<>>

TransportErrors == {<<"E", "C", "O", "N", "N", "R", "E", "S", "E", "T">>}

Statuses == {200, 201, 302, 304, 404, 500}

NullBody == [kind |-> "null", text |-> <<>>, hasError |-> FALSE, error |-> <<>>]

TextBody(t) == [kind |-> "text", text |-> t, hasError |-> FALSE, error |-> <<>>]

ObjectBody(hasError, error) ==
    [kind |-> "object", text |-> <<>>, hasError |-> hasError, error |-> error]

ErrNotFound == <<"n", "o", "t", " ", "f", "o", "u", "n", "d">>

Bodies == {NullBody, TextBody(<<"o", "k">>), ObjectBody(FALSE, <<>>),
           ObjectBody(TRUE, ErrNotFound), ObjectBody(TRUE, <<>>)}

Responses ==
    {[err |-> e, status |-> 0, body |-> NullBody] : e \in TransportErrors}
    \cup {[err |-> NoError, status |-> st, body |-> b] : st \in Statuses, b \in Bodies}

NoResponse == [err |-> NoError, status |-> 0, body |-> NullBody]

\* What a promise is settled with: nothing yet, a body, the transport's
\* error, or a new Error with its message.
NoValue == [kind |-> "none", body |-> NullBody, message |-> <<>>]

BodyValue(body) == [kind |-> "body", body |-> body, message |-> <<>>]

TransportError(err) == [kind |-> "transport", body |-> NullBody, message |-> err]

NewError(message) == [kind |-> "Error", body |-> NullBody, message |-> message]

\* String(body), the message new Error(body) gets.
StringOfBody(body) ==
    IF body.kind = "text" THEN body.text
    ELSE <<"[", "o", "b", "j", "e", "c", "t", " ", "O", "b", "j", "e", "c", "t", "]">>

\* The mutant of ErrorMessage: the error property is not looked at.
ErrorMessageOfBody(body) == StringOfBody(body)

\* body.error || body, as the message of the Error.
ErrorMessage(body) ==
    IF body.kind = "object" /\ body.hasError /\ body.error # <<>>
    THEN body.error
    ELSE StringOfBody(body)

\* What a callback does: the promise's state after it, the value, the calls
\* of resolve and reject it made, whether it threw, the requests it issued.
Resolved(body) ==
    [state |-> "resolved", value |-> BodyValue(body), settles |-> 1,
     threw |-> FALSE, sent |-> 0]

Rejected(value) ==
    [state |-> "rejected", value |-> value, settles |-> 1, threw |-> FALSE,
     sent |-> 0]

\* Reading body.error of null or undefined throws in the callback.
Threw ==
    [state |-> "pending", value |-> NoValue, settles |-> 0, threw |-> TRUE,
     sent |-> 0]

\* reject(new Error(body.error || body))
RejectWithBody(body) ==
    IF body.kind = "null" THEN Threw ELSE Rejected(NewError(ErrorMessage(body)))

\* The mutant of Client_onResponse: a server error is tried again.
Client_onResponseRetry(resp) ==
    IF resp.err # NoError THEN Rejected(TransportError(resp.err))
    ELSE IF resp.status >= 500
    THEN [state |-> "pending", value |-> NoValue, settles |-> 0,
          threw |-> FALSE, sent |-> 1]
    ELSE IF resp.status >= 400 THEN RejectWithBody(resp.body)
    ELSE Resolved(resp.body)

\* The callback of request() in Client.prototype._request.
Client_onResponse(resp) ==
    IF resp.err # NoError THEN Rejected(TransportError(resp.err))
    ELSE IF resp.status >= 400 THEN RejectWithBody(resp.body)
    ELSE Resolved(resp.body)

\* The callback of request() in MetaDiskClient.prototype._request, in its
\* storeFileInBucket and getFileFromBucket, and in Client's getFilePointer.
MetaDisk_onResponse(resp) ==
    IF resp.err # NoError THEN Rejected(TransportError(resp.err))
    ELSE IF resp.status # 200 /\ resp.status # 304 THEN RejectWithBody(resp.body)
    ELSE Resolved(resp.body)

\* The operations that call request() themselves, with an x-token header.
ClientFileOps == {"getFilePointer"}

MetaDiskFileOps == {"storeFileInBucket", "getFileFromBucket"}

FileEndpoint(op, a) ==
    CASE op = "getFilePointer" ->
            Call(M_GET, P_buckets \o Slash \o a.id \o P_files \o Slash \o a.hash,
                 <<>>, FALSE, <<>>)
      [] op = "storeFileInBucket" ->
            Call(M_PUT, P_buckets \o Slash \o a.id, <<>>, FALSE, <<>>)
      [] op = "getFileFromBucket" ->
            Call(M_GET, P_buckets \o Slash \o a.id \o Slash \o a.hash,
                 <<>>, FALSE, <<>>)

\* The operations of the client's generation that return a promise of one
\* request.
PromiseOps == IF gen = "client" THEN ClientOps \cup ClientFileOps
              ELSE MetaDiskOps \cup MetaDiskFileOps

EndpointOf(op, a) ==
    IF op \in ClientFileOps \cup MetaDiskFileOps THEN FileEndpoint(op, a)
    ELSE IF gen = "client" THEN Client_endpoint(op, a, callerObj)
    ELSE MetaDisk_endpoint(op, a, callerObj)

OnResponse(op, resp) ==
    IF gen = "client" /\ op \notin ClientFileOps THEN Client_onResponse(resp)
    ELSE MetaDisk_onResponse(resp)

NoApiCall ==
    [state |-> "idle", op |-> "", method |-> <<>>, path |-> <<>>, requests |-> 0,
     answered |-> FALSE, resp |-> NoResponse, value |-> NoValue, settles |-> 0,
     threw |-> FALSE]

InitCall == call = NoApiCall

\* An operation is called: its request goes out and its promise is pending.
Invoke(op, a) ==
    /\ call.state = "idle" \/ call.answered
    /\ op \in PromiseOps
    /\ \E c \in {EndpointOf(op, a)} :
          call' = [NoApiCall EXCEPT !.state = "pending", !.op = op,
                                    !.method = c.method, !.path = c.path,
                                    !.requests = 1]
    /\ UNCHANGED <<clientVars, keyVars, store, laterVars>>

\* The transport answers or fails, and request() calls the callback.
Answer(resp) ==
    /\ call.state = "pending"
    /\ ~call.answered
    /\ \E o \in {OnResponse(call.op, resp)} :
          call' = [call EXCEPT !.answered = TRUE, !.resp = resp,
                               !.state = o.state, !.value = o.value,
                               !.settles = o.settles, !.threw = o.threw,
                               !.requests = @ + o.sent]
    /\ UNCHANGED <<clientVars, keyVars, store, laterVars>>

NextOutcome ==
    \/ \E op \in ClientOps \cup ClientFileOps \cup MetaDiskFileOps :
          \E a \in ArgsOf(op) : Invoke(op, a)
    \/ \E resp \in Responses : Answer(resp)

\* ---------------------------------------------------- storeFileInBucket
\* Client.prototype.storeFileInBucket.  A shard goes from the demuxer's
\* 'shard' event ("reading") over the 'finish' of its temporary file
\* ("auditing"), the 'finish' of the audit generator, which issues the
\* add-shard request ("adding"), the pointer of that request ("opening"), the
\* 'open' of the data channel ("pushing") to the 'finish' of the push
\* ("done"); "failed" after a failed add-shard request, "channelError" after
\* an 'error' of the data channel, which nothing listens to.
NewShard ==
    [pc |-> "waiting", hashed |-> FALSE, audited |-> FALSE, requested |-> FALSE,
     pointer |-> FALSE, opened |-> FALSE, pushed |-> FALSE]

NoOutcome == <<"none", 0>>

NoStore ==
    [active |-> FALSE, numShards |-> 0, frame |-> "none", emitted |-> 0,
     shards |-> <<>>, completed |-> 0, reg |-> "none", regCount |-> 0,
     promise |-> "none", value |-> NoOutcome, failures |-> <<>>, late |-> FALSE]

InitStore == store = NoStore

\* The call itself: numShards of the file's size, completed = 0, the promise,
\* and the request of createFileStagingFrame().
StartStore(numShards) ==
    [NoStore EXCEPT !.active = TRUE, !.numShards = numShards,
                    !.frame = "requested",
                    !.shards = [i \in 1..numShards |-> NewShard],
                    !.promise = "pending"]

\* The mutant of Settle: a later resolve or reject replaces the outcome.
SettleLastWins(st, state, value) ==
    [st EXCEPT !.promise = state, !.value = value]

\* resolve(value) and reject(value): the first of them settles the promise.
Settle(st, state, value) ==
    IF st.promise = "pending"
    THEN [st EXCEPT !.promise = state, !.value = value]
    ELSE st

\* createFileStagingFrame() answered: its then() has a handler for the
\* frame and none for the failure.
AfterFrame(st, ok) == [st EXCEPT !.frame = IF ok THEN "ok" ELSE "failed"]

\* The demuxer is made in the handler of the frame.
DemuxerRuns(st) == st.frame = "ok"

\* demuxer 'shard': the next shard's streams and hasher are set up.
AfterShardEvent(st) ==
    [st EXCEPT !.emitted = @ + 1, !.shards[st.emitted + 1].pc = "reading"]

\* tmpFile 'finish': the hash of the whole shard, the audit generator fed.
AfterTmpFinish(st, i) ==
    [st EXCEPT !.shards[i].pc = "auditing", !.shards[i].hashed = TRUE]

\* The mutant of AfterAuditFinish: nothing more is asked once the promise
\* is rejected.
AfterAuditFinishUnlessRejected(st, i) ==
    IF st.promise = "rejected" THEN st
    ELSE [st EXCEPT !.shards[i].pc = "adding", !.shards[i].audited = TRUE,
                    !.shards[i].requested = TRUE]

\* auditGenerator 'finish': challenges and tree, and the add-shard request.
AfterAuditFinish(st, i) ==
    [st EXCEPT !.shards[i].pc = "adding", !.shards[i].audited = TRUE,
               !.shards[i].requested = TRUE,
               !.late = @ \/ st.promise = "rejected"]

\* addShardToFileStagingFrame(...).then(pointer handler, reject).
AfterAddShard(st, i, ok) ==
    IF ok
    THEN [st EXCEPT !.shards[i].pc = "opening", !.shards[i].pointer = TRUE]
    ELSE Settle([st EXCEPT !.shards[i].pc = "failed",
                           !.failures = Append(@, i)],
                "rejected", <<"addShard", i>>)

\* The mutant of AfterChannel: the push starts without the channel's 'open'.
AfterChannelUnopened(st, i, ok) ==
    [st EXCEPT !.shards[i].pc = "pushing"]

\* The data channel's 'open', which starts the push, or its 'error'.
AfterChannel(st, i, ok) ==
    IF ok
    THEN [st EXCEPT !.shards[i].pc = "pushing", !.shards[i].opened = TRUE,
                    !.late = @ \/ st.promise = "rejected"]
    ELSE [st EXCEPT !.shards[i].pc = "channelError"]

\* The mutant of ShouldRegister: the file is registered at the first shard.
ShouldRegisterEarly(completed, numShards) == completed >= 1

\* completed === numShards
ShouldRegister(completed, numShards) == completed = numShards

\* The push's 'finish': completed++, and the registration request when all
\* shards are counted.
AfterPushFinish(st, i) ==
    LET register == ShouldRegister(st.completed + 1, st.numShards)
    IN [st EXCEPT !.shards[i].pc = "done", !.shards[i].pushed = TRUE,
                  !.completed = @ + 1,
                  !.reg = IF register THEN "requested" ELSE @,
                  !.regCount = IF register THEN @ + 1 ELSE @,
                  !.late = @ \/ st.promise = "rejected"]

\* self._request('POST', '/buckets/' + id + '/files', ...).then(resolve, reject)
AfterRegistration(st, ok) ==
    Settle([st EXCEPT !.reg = IF ok THEN "ok" ELSE "failed"],
           IF ok THEN "resolved" ELSE "rejected",
           <<"register", IF ok THEN 1 ELSE 0>>)

StoreFile(numShards) ==
    /\ ~store.active
    /\ store' = StartStore(numShards)
    /\ UNCHANGED <<clientVars, keyVars, call, laterVars>>

FrameAnswer(ok) ==
    /\ store.frame = "requested"
    /\ store' = AfterFrame(store, ok)
    /\ UNCHANGED <<clientVars, keyVars, call, laterVars>>

ShardEvent ==
    /\ store.active
    /\ DemuxerRuns(store)
    /\ store.emitted < store.numShards
    /\ store' = AfterShardEvent(store)
    /\ UNCHANGED <<clientVars, keyVars, call, laterVars>>

TmpFinish(i) ==
    /\ store.shards[i].pc = "reading"
    /\ store' = AfterTmpFinish(store, i)
    /\ UNCHANGED <<clientVars, keyVars, call, laterVars>>

AuditFinish(i) ==
    /\ store.shards[i].pc = "auditing"
    /\ store' = AfterAuditFinish(store, i)
    /\ UNCHANGED <<clientVars, keyVars, call, laterVars>>

AddShardAnswer(i, ok) ==
    /\ store.shards[i].pc = "adding"
    /\ store' = AfterAddShard(store, i, ok)
    /\ UNCHANGED <<clientVars, keyVars, call, laterVars>>

Channel(i, ok) ==
    /\ store.shards[i].pc = "opening"
    /\ store' = AfterChannel(store, i, ok)
    /\ UNCHANGED <<clientVars, keyVars, call, laterVars>>

PushFinish(i) ==
    /\ store.shards[i].pc = "pushing"
    /\ store' = AfterPushFinish(store, i)
    /\ UNCHANGED <<clientVars, keyVars, call, laterVars>>

RegistrationAnswer(ok) ==
    /\ store.reg = "requested"
    /\ store' = AfterRegistration(store, ok)
    /\ UNCHANGED <<clientVars, keyVars, call, laterVars>>

NextStore ==
    \/ \E numShards \in 0..MaxShards : StoreFile(numShards)
    \/ \E ok \in BOOLEAN : FrameAnswer(ok)
    \/ ShardEvent
    \/ \E i \in 1..Len(store.shards) : TmpFinish(i)
    \/ \E i \in 1..Len(store.shards) : AuditFinish(i)
    \/ \E i \in 1..Len(store.shards), ok \in BOOLEAN : AddShardAnswer(i, ok)
    \/ \E i \in 1..Len(store.shards), ok \in BOOLEAN : Channel(i, ok)
    \/ \E i \in 1..Len(store.shards) : PushFinish(i)
    \/ \E ok \in BOOLEAN : RegistrationAnswer(ok)

\* ------------------------------ Client.prototype.resolveFileFromPointers
\* The lists of pointers a file resolves to, each pointer with the size of
\* its shard.
PointerSizes == {1, 2}
PointerLists == UNION {[1..n -> PointerSizes] : n \in 0..MaxShards}

\* pointers.reduce(function(a, b) { return {size: a.size + b.size}; }).size
\* of a list that is not empty; of an empty list reduce() throws a TypeError,
\* for it is given no initial value.
RECURSIVE ReduceSize(_)
ReduceSize(pointers) ==
    IF Len(pointers) = 1 THEN pointers[1]
    ELSE ReduceSize(SubSeq(pointers, 1, Len(pointers) - 1)) + pointers[Len(pointers)]

NoResolve ==
    [state |-> "idle", pointers |-> <<>>,
     muxer |-> [shards |-> 0, length |-> 0, inputs |-> <<>>],
     channels |-> <<>>, opened |-> 0, promise |-> "none", value |-> "none",
     resolveCalls |-> 0]

InitResolve == resolve = NoResolve

\* The call itself: the muxer is made for the sum of the sizes, and each pointer
\* of the list is given a DataChannelClient of its own, which is connecting.
StartResolve(pointers) ==
    IF Len(pointers) = 0 THEN [NoResolve EXCEPT !.state = "threw"]
    ELSE [NoResolve EXCEPT
             !.state = "running", !.pointers = pointers,
             !.muxer = [shards |-> Len(pointers), length |-> ReduceSize(pointers),
                        inputs |-> <<>>],
             !.channels = [i \in 1..Len(pointers) |->
                              [pointer |-> i, state |-> "connecting"]],
             !.promise = "pending"]

\* The mutant of ShouldResolve: the first channel that opens resolves.
ShouldResolveAtFirstOpen(opened, length) == opened >= 1

\* opened === pointers.length
ShouldResolve(opened, length) == opened = length

\* resolve(muxer); a promise that is settled stays as it is.
ResolveWithMuxer(r) ==
    [r EXCEPT !.promise = IF @ = "pending" THEN "resolved" ELSE @,
              !.value = IF r.promise = "pending" THEN "muxer" ELSE @,
              !.resolveCalls = @ + 1]

\* The handler of 'open' of channel c, an event a channel emits once: the read
\* stream of the channel's pointer is given to the muxer and the opening is
\* counted.
AfterOpen(r, c) ==
    LET r1 == [r EXCEPT !.channels[c].state = "open",
                        !.muxer.inputs = Append(@, r.channels[c].pointer),
                        !.opened = @ + 1]
    IN  IF ShouldResolve(r1.opened, Len(r1.pointers)) THEN ResolveWithMuxer(r1) ELSE r1

\* Channel c fails to connect: no handler of the call listens to it.
AfterChannelError(r, c) == [r EXCEPT !.channels[c].state = "failed"]

ResolveFile(pointers) ==
    /\ resolve.state = "idle"
    /\ resolve' = StartResolve(pointers)
    /\ UNCHANGED <<clientVars, keyVars, call, store, fetch, cli>>

ChannelOpen(c) ==
    /\ resolve.state = "running"
    /\ resolve.channels[c].state = "connecting"
    /\ resolve' = AfterOpen(resolve, c)
    /\ UNCHANGED <<clientVars, keyVars, call, store, fetch, cli>>

ChannelError(c) ==
    /\ resolve.state = "running"
    /\ resolve.channels[c].state = "connecting"
    /\ resolve' = AfterChannelError(resolve, c)
    /\ UNCHANGED <<clientVars, keyVars, call, store, fetch, cli>>

NextResolve ==
    \/ \E pointers \in PointerLists : ResolveFile(pointers)
    \/ \E c \in 1..Len(resolve.channels) : ChannelOpen(c)
    \/ \E c \in 1..Len(resolve.channels) : ChannelError(c)

\* ------------------------ MetaDiskClient.prototype.resolveFileFromPointers
\* JSON.parse(body).result.data_shard of the answer of the peer of pointer i;
\* the shard of pointer i is the one byte i.
ShardHex(i) == <<"0", HexChars[i + 1]>>

\* What the peer of pointer i may answer: its shard, a shard that is not
\* hex, a body that is not JSON, or nothing, for the request failed.
PeerAnswers(i) ==
    {[kind |-> "json", data_shard |-> ShardHex(i)],
     [kind |-> "json", data_shard |-> <<"0", "g">>],
     [kind |-> "text", data_shard |-> <<>>],
     [kind |-> "error", data_shard |-> <<>>]}

\* The callback of request(): done(err), or done(null, shard) with
\* new Buffer(JSON.parse(body).result.data_shard, 'hex').
ShardOfAnswer(answer) ==
    IF answer.kind = "error" THEN [err |-> "transport", shard |-> <<>>]
    ELSE IF answer.kind # "json" THEN [err |-> "SyntaxError", shard |-> <<>>]
    ELSE IF BufferFromHex(answer.data_shard)[1] # "raw"
         THEN [err |-> "TypeError", shard |-> <<>>]
    ELSE [err |-> "", shard |-> BufferFromHex(answer.data_shard)]

\* Buffer.concat(list)
RECURSIVE BufferConcat(_)
BufferConcat(list) ==
    IF Len(list) = 0 THEN <<"raw", <<>>>>
    ELSE <<"raw", BufferConcat(SubSeq(list, 1, Len(list) - 1))[2] \o list[Len(list)][2]>>

NoFetch ==
    [state |-> "idle", length |-> 0, requests |-> <<>>, results |-> <<>>,
     completed |-> 0, arrived |-> <<>>, failures |-> <<>>, called |-> FALSE,
     promise |-> "none", value |-> <<>>]

InitFetch == fetch = NoFetch

\* onAllShardsResolved(err, shards), which async.map calls once.
OnAllShardsResolved(f, err, shards) ==
    IF f.called THEN f
    ELSE IF err # <<>> THEN [f EXCEPT !.called = TRUE, !.promise = "rejected", !.value = err]
    ELSE [f EXCEPT !.called = TRUE, !.promise = "resolved", !.value = BufferConcat(shards)]

\* async.map(pointers, iterator, callback): the iterator is called for every
\* pointer at once, and each issues its request; of an empty list the
\* callback is called with an empty list.
StartFetch(n) ==
    LET f == [NoFetch EXCEPT !.state = "running", !.length = n,
                             !.requests = [i \in 1..n |-> "pending"],
                             !.results = [i \in 1..n |-> <<>>],
                             !.promise = "pending"]
    IN  IF n = 0 THEN OnAllShardsResolved(f, <<>>, <<>>) ELSE f

\* The mutant of MapResult: a result is put after those that came before it.
MapResultByArrival(results, completed, i, shard) ==
    [results EXCEPT ![completed + 1] = shard]

\* async.map: results[index] = v
MapResult(results, completed, i, shard) == [results EXCEPT ![i] = shard]

\* done(err, shard) of the iterator of pointer i, as async.map takes it.
AfterDone(f, i, d) ==
    LET f1 == [f EXCEPT !.requests[i] = "answered", !.arrived = Append(@, i)]
    IN  IF d.err # ""
        THEN OnAllShardsResolved([f1 EXCEPT !.failures = Append(@, i)],
                                 <<"error", i, d.err>>, <<>>)
        ELSE LET f2 == [f1 EXCEPT !.results = MapResult(@, f.completed, i, d.shard),
                                  !.completed = @ + 1]
             IN  IF f2.completed = f2.length
                 THEN OnAllShardsResolved(f2, <<>>, f2.results)
                 ELSE f2

FetchFile(n) ==
    /\ fetch.state = "idle"
    /\ fetch' = StartFetch(n)
    /\ UNCHANGED <<clientVars, keyVars, call, store, resolve, cli>>

PeerAnswer(i, answer) ==
    /\ fetch.state = "running"
    /\ fetch.requests[i] = "pending"
    /\ fetch' = AfterDone(fetch, i, ShardOfAnswer(answer))
    /\ UNCHANGED <<clientVars, keyVars, call, store, resolve, cli>>

NextFetch ==
    \/ \E n \in 0..MaxShards : FetchFile(n)
    \/ \E i \in 1..Len(fetch.requests) : \E answer \in PeerAnswers(i) : PeerAnswer(i, answer)

\* ------------------------------------------------ the command line tool
\* The subcommands of the program, in the order they are declared.
Commands ==
    {"getinfo", "register", "login", "logout", "listkeys", "addkey", "removekey",
     "listbuckets", "getbucket", "addbucket", "removebucket", "updatebucket",
     "addframe", "listframes", "getframe", "removeframe", "listfiles",
     "removefile", "uploadfile", "downloadfile", "streamfile", "getpointer",
     "createtoken", "listcontacts", "getcontact", "resetkeyring"}

\* The keys of ACTIONS.
Actions ==
    {"getinfo", "register", "login", "logout", "listkeys", "addkey", "removekey",
     "listbuckets", "getbucket", "removebucket", "addbucket", "updatebucket",
     "listfiles", "removefile", "uploadfile", "getpointer", "addframe",
     "listframes", "getframe", "removeframe", "downloadfile", "createtoken",
     "streamfile", "resetkeyring", "listcontacts", "getcontact"}

\* program.command(c).action(ACTIONS.key): the key command c is bound to.
BoundAction(c) == IF c = "createtoken" THEN "getfile" ELSE c

\* The method an action calls on its client before any other; resetkeyring
\* calls none.
FirstOperation(action) ==
    CASE action = "getinfo" -> "getInfo"
      [] action = "register" -> "createUser"
      [] action = "login" -> "addPublicKey"
      [] action = "logout" -> "destroyPublicKey"
      [] action = "listkeys" -> "getPublicKeys"
      [] action = "addkey" -> "addPublicKey"
      [] action = "removekey" -> "destroyPublicKey"
      [] action = "listbuckets" -> "getBuckets"
      [] action = "getbucket" -> "getBucketById"
      [] action = "removebucket" -> "destroyBucketById"
      [] action = "addbucket" -> "createBucket"
      [] action = "updatebucket" -> "updateBucketById"
      [] action = "listfiles" -> "listFilesInBucket"
      [] action = "removefile" -> "removeFileFromBucket"
      [] action = "uploadfile" -> "createToken"
      [] action = "getpointer" -> "createToken"
      [] action = "addframe" -> "createFileStagingFrame"
      [] action = "listframes" -> "getFileStagingFrames"
      [] action = "getframe" -> "getFileStagingFrameById"
      [] action = "removeframe" -> "destroyFileStagingFrameById"
      [] action = "downloadfile" -> "createToken"
      [] action = "createtoken" -> "createToken"
      [] action = "streamfile" -> "createToken"
      [] action = "listcontacts" -> "getContactList"
      [] action = "getcontact" -> "getContactByNodeId"
      [] OTHER -> ""

\* The actions that make their client with PublicClient() or by themselves;
\* the others make it with PrivateClient().
PublicActions == {"getinfo", "register", "login", "listcontacts", "getcontact"}

\* The methods of Client.prototype that the tool may call.
ClientMethods ==
    ClientOps \cup {"storeFileInBucket", "getFilePointer", "resolveFileFromPointers"}

\* The ids of the files in the bucket; the bridge gives a stored file the
\* second of them.
FileIds == {"f1", "f2"}
StoredId == "f2"

\* The pointers getFilePointer resolves with.
Pointer == <<"p1", "p2">>

\* The mutant of Exists: every path is taken to have a file.
ExistsAlways(file) == TRUE

\* fs.existsSync(path)
Exists(file) == file # "absent"

\* keyring.get(id)
HasKey(keyring, id) == \E e \in keyring : e[1] = id

\* keyring.set(id, secret)
KeyRingSet(keyring, id, secret) ==
    {e \in keyring : e[1] # id} \cup {<<id, secret>>}

\* new storj.KeyPair(): a secret the keyring does not hold.
NewSecret(keyring) == IF \E e \in keyring : e[2] = "s1" THEN "s2" ELSE "s1"

\* A process of the tool that has not run a command, beside the files at
\* filepath and tmppath, the output path and the keyring.
NoCli ==
    [cmd |-> "", pc |-> "idle", id |-> "", src |-> "absent", tmp |-> "absent",
     out |-> "absent", keyring |-> {}, secret |-> "", keypair |-> 0,
     calls |-> <<>>, channels |-> 0, log |-> <<>>, wroteTmp |-> FALSE]

InitCli == cli = NoCli

\* The states of the files a process of the tool may start in.
StartCli ==
    {[NoCli EXCEPT !.src = s, !.out = o, !.keyring = k] :
        s \in {"absent", "plain"}, o \in {"absent", "old"},
        k \in {{}, {<<"f1", "s0">>}}}

\* The files the tool reads and writes.
FilesOf(c, kf) == <<c.src, c.tmp, c.out, c.keyring, kf>>

\* log(type, message)
Log(c, entry) == [c EXCEPT !.log = Append(@, entry)]

\* return log('error', ...): the action ends.
Fail(c, entry) == [Log(c, entry) EXCEPT !.pc = "done"]

\* PrivateClient().op(...) or PublicClient().op(...), after which the
\* action waits at pc: loadKeyPair() ends the process when there is no key
\* file, and a method the client has not is not a function.
CallClient(c, op, private, kf, pc) ==
    IF private /\ kf = <<>>
    THEN [Log(c, "error: not authenticated") EXCEPT !.pc = "exited"]
    ELSE IF op \notin ClientMethods THEN [c EXCEPT !.pc = "threw"]
    ELSE [c EXCEPT !.calls = Append(@, op), !.pc = pc]

\* The command is given: commander calls the action bound to it, which runs
\* to its first wait.
AfterRun(c, cmd, id, kf) ==
    LET p == [c EXCEPT !.cmd = cmd, !.id = id, !.pc = "running", !.secret = "",
                       !.keypair = 0, !.calls = <<>>, !.channels = 0,
                       !.log = <<>>, !.wroteTmp = FALSE]
        action == BoundAction(cmd)
    IN  CASE action \notin Actions -> [p EXCEPT !.pc = "threw"]
          [] action = "login" ->
                IF kf # <<>> THEN Fail(p, "error: already paired")
                ELSE [p EXCEPT !.pc = "credentials"]
          [] action = "register" -> [p EXCEPT !.pc = "credentials"]
          [] action = "uploadfile" ->
                IF ~Exists(p.src) THEN Fail(p, "error: no file found")
                ELSE [p EXCEPT !.secret = NewSecret(p.keyring), !.pc = "keyring"]
          [] action = "downloadfile" ->
                IF Exists(p.out) THEN Fail(p, "error: refusing to overwrite")
                ELSE [p EXCEPT !.pc = "keyring"]
          [] action \in {"streamfile", "resetkeyring"} -> [p EXCEPT !.pc = "keyring"]
          [] OTHER -> CallClient(p, FirstOperation(action),
                                 action \notin PublicActions, kf, "request")

\* The callback of getCredentials.
AfterCredentials(c, ok, d, kf) ==
    IF ~ok THEN Fail(c, "error: message")
    ELSE CallClient([c EXCEPT !.keypair = IF c.cmd = "login" THEN d ELSE 0],
                    FirstOperation(c.cmd), FALSE, kf, "request")

\* The callback of getKeyRing, or its end when the keyring does not unlock.
AfterKeyRing(c, ok, kf) ==
    IF ~ok THEN Fail(c, "error: could not unlock keyring")
    ELSE CASE c.cmd = "uploadfile" ->
                 [c EXCEPT !.tmp = "partial", !.wroteTmp = TRUE, !.pc = "encrypting"]
           [] c.cmd = "downloadfile" -> CallClient(c, "createToken", TRUE, kf, "token")
           [] c.cmd = "streamfile" ->
                 IF ~HasKey(c.keyring, c.id) THEN Fail(c, "error: no decryption key")
                 ELSE CallClient(c, "createToken", TRUE, kf, "token")
           [] OTHER -> [Log(c, "info") EXCEPT !.pc = "done"]

\* 'finish' of the write stream of tmppath.
AfterEncryptFinish(c, kf) ==
    CallClient([c EXCEPT !.tmp = "encrypted"], "createToken", TRUE, kf, "token")

\* cleanup()
Cleanup(c) == [Log(c, "info") EXCEPT !.tmp = "absent"]

\* The handlers of the promise of the client's method the action waits for.
AfterAnswer(c, ok, kf) ==
    CASE c.pc = "request" ->
            [Log(c, IF ok \/ c.cmd = "logout" THEN "info" ELSE "error: message")
                EXCEPT !.pc = "done"]
      [] c.pc = "token" ->
            IF ~ok
            THEN Fail(IF c.cmd = "uploadfile" THEN Cleanup(c) ELSE c, "error: message")
            ELSE IF c.cmd = "uploadfile"
                 THEN CallClient(c, "storeFileInBucket", TRUE, kf, "storing")
                 ELSE CallClient(c, "getFilePointer", TRUE, kf, "pointer")
      [] c.pc = "pointer" ->
            IF ~ok THEN Fail(c, "error: message")
            ELSE IF c.cmd = "getpointer" THEN [Log(c, "info") EXCEPT !.pc = "done"]
            ELSE LET t == IF c.cmd = "downloadfile" THEN [c EXCEPT !.out = "empty"]
                          ELSE c
                 IN  IF c.cmd = "downloadfile" /\ ~HasKey(t.keyring, t.id)
                     THEN Fail(t, "error: no decryption key")
                     ELSE LET r == CallClient(t, "resolveFileFromPointers", TRUE,
                                              kf, "resolving")
                          IN  IF r.pc = "resolving"
                              THEN [r EXCEPT !.channels = Len(Pointer)]
                              ELSE r
      [] OTHER -> c

\* The mutant of KeyFileAfterAnswer: login writes the key whatever the answer.
KeyFileWrittenAtOnce(c, ok, kf) ==
    IF c.pc = "request" /\ c.cmd = "login"
    THEN getPrivateKey(KeyPairGenerated(c.keypair))
    ELSE IF c.pc = "request" /\ c.cmd = "logout" THEN <<>>
    ELSE kf

\* KEYPATH after the handlers: login writes it when addPublicKey resolved,
\* logout removes it.
KeyFileAfterAnswer(c, ok, kf) ==
    IF c.pc = "request" /\ c.cmd = "login" /\ ok
    THEN getPrivateKey(KeyPairGenerated(c.keypair))
    ELSE IF c.pc = "request" /\ c.cmd = "logout" THEN <<>>
    ELSE kf

\* The handlers of the promise of storeFileInBucket.
AfterStore(c, ok) ==
    IF ok
    THEN [Log(Cleanup([c EXCEPT !.keyring = KeyRingSet(@, StoredId, c.secret)]), "info")
             EXCEPT !.pc = "done"]
    ELSE Fail(Cleanup(c), "error: message")

\* The handler of the promise of resolveFileFromPointers: the stream is
\* piped to the output.
AfterResolve(c) ==
    [Log(c, "info") EXCEPT !.out = IF c.cmd = "downloadfile" THEN "written" ELSE @,
                           !.pc = "done"]

\* A promise that is left pending with nothing outstanding: no handler runs.
AfterStall(c) == [c EXCEPT !.pc = "stalled"]

cliFrame == <<clientVars, kps, ret, call, store, resolve, fetch>>

Run(cmd, id) ==
    /\ cli.pc \in {"idle", "done", "exited", "threw", "stalled"}
    /\ cli' = AfterRun(cli, cmd, id, keyfile)
    /\ UNCHANGED <<keyfile, registered, cliFrame>>

Credentials(ok, d) ==
    /\ cli.pc = "credentials"
    /\ cli' = AfterCredentials(cli, ok, d, keyfile)
    /\ UNCHANGED <<keyfile, registered, cliFrame>>

KeyRing(ok) ==
    /\ cli.pc = "keyring"
    /\ cli' = AfterKeyRing(cli, ok, keyfile)
    /\ UNCHANGED <<keyfile, registered, cliFrame>>

EncryptFinish ==
    /\ cli.pc = "encrypting"
    /\ cli' = AfterEncryptFinish(cli, keyfile)
    /\ UNCHANGED <<keyfile, registered, cliFrame>>

ClientAnswer(ok) ==
    /\ cli.pc \in {"request", "token", "pointer"}
    /\ cli' = AfterAnswer(cli, ok, keyfile)
    /\ keyfile' = KeyFileAfterAnswer(cli, ok, keyfile)
    /\ registered' = IF cli.pc = "request" /\ cli.cmd = "login" /\ ok
                     THEN getPublicKey(KeyPairGenerated(cli.keypair))
                     ELSE registered
    /\ UNCHANGED cliFrame

StoreAnswer(ok) ==
    /\ cli.pc = "storing"
    /\ cli' = AfterStore(cli, ok)
    /\ UNCHANGED <<keyfile, registered, cliFrame>>

ResolveAnswer ==
    /\ cli.pc = "resolving"
    /\ cli' = AfterResolve(cli)
    /\ UNCHANGED <<keyfile, registered, cliFrame>>

Stall ==
    /\ cli.pc \in {"storing", "resolving"}
    /\ cli' = AfterStall(cli)
    /\ UNCHANGED <<keyfile, registered, cliFrame>>

NextCli ==
    \/ \E cmd \in Commands :
          \E id \in IF cmd \in {"downloadfile", "streamfile"} THEN FileIds ELSE {""} :
             Run(cmd, id)
    \/ \E ok \in BOOLEAN, d \in GenKeys : Credentials(ok, d)
    \/ \E ok \in BOOLEAN : KeyRing(ok)
    \/ EncryptFinish
    \/ \E ok \in BOOLEAN : ClientAnswer(ok)
    \/ \E ok \in BOOLEAN : StoreAnswer(ok)
    \/ ResolveAnswer
    \/ Stall

\* ------------------------------------------------------ specifications
InitLater == InitResolve /\ InitFetch /\ InitCli
Init == InitClient /\ InitKeys /\ InitCall /\ InitStore /\ InitLater
Next == NextClient
Spec == Init /\ [][Next]_vars

\* The KeyPair class by itself, beside a client that issues nothing.
InitKeyPair == /\ InitKeys
               /\ gen = "client"
               /\ options = CHOOSE o \in ClientOptions : o.keypair = <<>> /\ ~o.hasBasicauth
               /\ now = 0
               /\ callerObj = <<>>
               /\ last = NoRequest
               /\ hashed = 0
               /\ InitCall
               /\ InitStore
               /\ InitLater
SpecKeyPair == InitKeyPair /\ [][NextKeys]_vars

\* The promises of the operations, for a client of either generation that
\* has no credential.
InitOutcome == /\ InitKeys
               /\ gen \in {"client", "index"}
               /\ options = CHOOSE o \in (IF gen = "client" THEN ClientOptions
                                                             ELSE MetaDiskOptions) :
                                o.keypair = <<>> /\ ~o.hasBasicauth /\ o.privkey = <<>>
                                /\ o.email = <<>> /\ o.password = <<>>
               /\ now = 0
               /\ callerObj = <<>>
               /\ last = NoRequest
               /\ hashed = 0
               /\ InitCall
               /\ InitStore
               /\ InitLater
SpecOutcome == InitOutcome /\ [][NextOutcome]_vars

\* storeFileInBucket on a Client, beside operations that issue nothing.
SpecStore == InitKeyPair /\ [][NextStore]_vars

\* resolveFileFromPointers on a Client.
SpecResolve == InitKeyPair /\ [][NextResolve]_vars

\* resolveFileFromPointers on a MetaDiskClient.
InitIndex == /\ InitKeys
             /\ gen = "index"
             /\ options = CHOOSE o \in MetaDiskOptions :
                              o.privkey = <<>> /\ o.email = <<>> /\ o.password = <<>>
             /\ now = 0
             /\ callerObj = <<>>
             /\ last = NoRequest
             /\ hashed = 0
             /\ InitCall
             /\ InitStore
             /\ InitLater
SpecFetch == InitIndex /\ [][NextFetch]_vars

\* The command line tool, one process after another, on a device that is
\* paired or not.
InitCommands == /\ kps = <<>>
                /\ ret = NoCall
                /\ keyfile \in {<<>>, getPrivateKey(KeyPairGenerated(21))}
                /\ registered = IF keyfile = <<>> THEN <<>>
                                ELSE getPublicKey(KeyPairFromPrivate(keyfile))
                /\ gen = "client"
                /\ options = CHOOSE o \in ClientOptions : o.keypair = <<>> /\ ~o.hasBasicauth
                /\ now = 0
                /\ callerObj = <<>>
                /\ last = NoRequest
                /\ hashed = 0
                /\ InitCall
                /\ InitStore
                /\ InitResolve
                /\ InitFetch
                /\ cli \in StartCli
SpecCli == InitCommands /\ [][NextCli]_vars

\* ------------------------------------------------------------ claims
\* The credentials a client is configured with.
HasKeypair == IF gen = "client" THEN options.keypair # <<>>
              ELSE options.privkey # <<>>

HasBasicAuth == IF gen = "client" THEN options.hasBasicauth
                ELSE options.email # <<>> /\ options.password # <<>>

\* The parameters of the last request with the nonce it was given.
LastParams == Set(last.args, K_nonce, Num(last.nonce))

\* C1: every request a client with a keypair builds is signed over
\* METHOD \n PATH \n PAYLOAD, where PAYLOAD is the query string of the
\* parameters for GET and DELETE and their JSON serialization otherwise.
C1_CanonicalContract ==
    (last.issued /\ HasKeypair) =>
        /\ last.signed
        /\ last.contract =
              last.method \o <<"\n">> \o last.path \o <<"\n">> \o
              (IF last.method = M_GET \/ last.method = M_DELETE
               THEN QSStringify(LastParams)
               ELSE JSONStringify(LastParams))

\* A signed DELETE and, before it, nothing else: the second query method.
C1_Witness ==
    /\ last.issued /\ last.signed
    /\ last.method = M_DELETE
    /\ last.op = "destroyBucketById"

\* C2: the payload inside the signed contract is the payload of the options
\* request() is called with; the nonce is among the parameters before they
\* are signed, and the object signed and sent is the one the caller passed.
C2_SignedIsSent ==
    (last.issued /\ last.signed) =>
        /\ last.opts.method = last.method
        /\ last.opts.uri = last.path
        /\ last.contract =
              Contract(last.opts.method, last.opts.uri, SentPayload(last.opts))
        /\ Has(SentParams(last.opts), K_nonce)
        /\ Get(SentParams(last.opts), K_nonce) = Num(last.nonce)
        /\ last.byRef => SentParams(last.opts) = callerObj

\* A signed request with a JSON body made of the caller's own object.
C2_Witness ==
    /\ last.issued /\ last.signed /\ last.byRef
    /\ ~last.opts.hasQs
    /\ Len(SentParams(last.opts)) > 1

\* C3 as stated: whatever the options, a client that has a basic-auth
\* credential sends no x-pubkey and x-signature headers, and a client that
\* has a keypair sends no basic-auth credentials.
C3_NeverBoth_AsStated ==
    last.issued =>
        /\ HasBasicAuth => ~last.opts.hasHeaders
        /\ HasKeypair => ~last.opts.hasAuth

\* C3: a client that has a basic-auth credential and no keypair sends no
\* x-pubkey and x-signature headers, and a client that has a keypair sends no
\* basic-auth credentials, basic-auth credential configured or not.
C3_NeverBoth ==
    last.issued =>
        /\ (HasBasicAuth /\ ~HasKeypair) => ~last.opts.hasHeaders
        /\ HasKeypair => ~last.opts.hasAuth
        /\ ~(last.opts.hasHeaders /\ last.opts.hasAuth)

\* A request of a client configured with both credentials.
C3_Witness ==
    /\ last.issued
    /\ HasBasicAuth /\ HasKeypair
    /\ last.opts.hasHeaders

\* C4: with neither credential the request carries no signature headers and
\* no basic-auth credentials and is still handed to request(); with a
\* credential, exactly one of the two is applied.
C4_OneBranch ==
    last.issued =>
        IF ~HasKeypair /\ ~HasBasicAuth
        THEN ~last.opts.hasHeaders /\ ~last.opts.hasAuth /\ ~last.signed
        ELSE last.opts.hasHeaders # last.opts.hasAuth

\* A request sent by a client that has an email and nothing else.
C4_Witness ==
    /\ last.issued
    /\ ~HasKeypair /\ ~HasBasicAuth
    /\ options.email # <<>>
    /\ last.opts.uri # <<>>

\* The texts in the options of a request: the basic-auth user and pass, the
\* uri and the values of the parameters.
TextsOf(opts) ==
    {opts.user, opts.pass, opts.uri}
    \cup {SentParams(opts)[i].v.s : i \in {j \in 1..Len(SentParams(opts)) :
                                              SentParams(opts)[j].v.t = "str"}}

\* C5: the password of the basic-auth credential and the password given to
\* createUser are in no request; the basic-auth pass is the SHA-256 hex of
\* the configured password and the createUser body holds the SHA-256 hex of
\* the password given.
C5_NoPlaintextPassword ==
    last.issued =>
        /\ last.opts.hasAuth =>
              /\ last.opts.user = options.email
              /\ last.opts.pass = BufferToHex(Hash("sha256", BufferFromUtf8(options.password)))
        /\ options.password # <<>> => options.password \notin TextsOf(last.opts)
        /\ last.op = "createUser" =>
              /\ last.password # <<>>
              /\ last.password \notin TextsOf(last.opts)
              /\ Get(SentParams(last.opts), K_password) =
                    Str(BufferToHex(Hash("sha256", BufferFromUtf8(last.password))))

\* createUser called on a client that authenticates with basic auth.
C5_Witness ==
    /\ last.issued
    /\ last.op = "createUser"
    /\ last.opts.hasAuth
    /\ last.opts.pass # <<>>

\* The 33 bytes of a compressed point: 2 or 3 by the parity of y, then x in
\* 32 bytes, most significant first.
CompressedBytes(P) ==
    <<IF P.y % 2 = 1 THEN 3 ELSE 2>>
    \o [i \in 1..32 |-> IF i = 32 THEN P.x % 256
                        ELSE IF i = 31 THEN (P.x \div 256) % 256 ELSE 0]

\* The public point of key pair i.
PublicPoint(i) == GMul(kps[i].priv % Curve.n)

\* C6: a signature a key pair made of a message verifies against that key
\* pair's public key and that message, "GET\n/buckets\n" included.
C6_SignVerifyRoundTrip ==
    (/\ ret.op = "verify"
     /\ ret.data = ret.signed
     /\ kps[ret.kp].priv = kps[ret.src].priv) =>
        /\ ret.signature = KeyPair_sign(kps[ret.src], ret.data)
        /\ ret.pubkey = getPublicKey(kps[ret.src])
        /\ ret.verdict = "true"

\* "GET\n/buckets\n" verified with a restored key pair's public key against
\* the signature of the key pair it was restored from.
C6_Witness ==
    /\ ret.op = "verify"
    /\ ret.verdict = "true"
    /\ ret.data = <<"G", "E", "T", "\n", "/", "b", "u", "c", "k", "e", "t", "s", "\n">>
    /\ ret.kp # ret.src

\* C7: verify answers true or false; for a signature made of another message
\* or by another key than the public key's, it answers false.
C7_MismatchIsFalse ==
    ret.op = "verify" =>
        /\ ret.verdict \in {"true", "false"}
        /\ (ret.data # ret.signed \/ kps[ret.kp].priv # kps[ret.src].priv) =>
              ret.verdict = "false"

\* The right message against the public key of another key.
C7_Witness ==
    /\ ret.op = "verify"
    /\ ret.data = ret.signed
    /\ kps[ret.kp].priv # kps[ret.src].priv
    /\ ret.verdict = "false"

\* C8: getNodeID returns the hex of RIPEMD-160(SHA-256(the 33 compressed
\* bytes of the public point)), which the private key determines: every
\* instance of the same private key has the same node ID.
C8_NodeIdOfPrivateKey ==
    /\ ret.op = "getNodeID" =>
          ret.text = BufferToHex(Hash("rmd160", Hash("sha256",
                        <<"raw", CompressedBytes(PublicPoint(ret.kp))>>)))
    /\ \A i, j \in 1..Len(kps) :
          kps[i].priv = kps[j].priv => getNodeID(kps[i]) = getNodeID(kps[j])

\* The node ID of the second of two instances of one private key.
C8_Witness ==
    /\ ret.op = "getNodeID"
    /\ ret.kp = 2
    /\ kps[1].priv = kps[2].priv
    /\ ret.text # <<>>

\* C9: getPublicKey returns 66 hex digits, 33 bytes: 03 when y is odd and 02
\* when it is even, then the x-coordinate in 32 bytes, leading zeros kept.
C9_CompressedPublicKey ==
    ret.op = "getPublicKey" =>
        /\ Len(ret.text) = 66
        /\ \A i \in 1..Len(ret.text) : ret.text[i] \in HexCharSet
        /\ SubSeq(ret.text, 1, 2) =
              (IF PublicPoint(ret.kp).y % 2 = 1 THEN <<"0", "3">> ELSE <<"0", "2">>)
        /\ ReadDigits(SubSeq(ret.text, 3, 66), 16) = PublicPoint(ret.kp).x
        /\ ret.text = BytesToHex(CompressedBytes(PublicPoint(ret.kp)))

\* The public key of a point whose y is odd.
C9_Witness ==
    /\ ret.op = "getPublicKey"
    /\ PublicPoint(ret.kp).y % 2 = 1
    /\ ret.text[2] = "3"

\* C10: a key pair restored from another's getPrivateKey() has its private
\* key, public key and node ID; the key pair loadKeyPair reads from the file
\* login wrote has the public key login registered, and what it signs
\* verifies against that key.
C10_PrivateKeyRoundTrip ==
    /\ ret.op = "restore" =>
          /\ kps[ret.kp].priv = kps[ret.src].priv
          /\ getPrivateKey(kps[ret.kp]) = getPrivateKey(kps[ret.src])
          /\ getPublicKey(kps[ret.kp]) = getPublicKey(kps[ret.src])
          /\ getNodeID(kps[ret.kp]) = getNodeID(kps[ret.src])
    /\ ret.op = "load" =>
          /\ getPublicKey(kps[ret.kp]) = registered
          /\ \A m \in Messages :
                KeyPair_verify(m, registered, KeyPair_sign(kps[ret.kp], m)) = "true"

\* The key pair loaded from the key file after a login.
C10_Witness ==
    /\ ret.op = "load"
    /\ registered # <<>>
    /\ keyfile = getPrivateKey(kps[ret.kp])

\* A status of success as the specification counts it: 2xx or 304.
IsSuccessStatus(st) == (st >= 200 /\ st <= 299) \/ st = 304

\* C11: the promise of an operation is rejected for every transport error
\* and every answer whose status is neither 2xx nor 304, and resolved with
\* the parsed body for every answer whose status is 2xx or 304.
C11_OutcomeByStatus ==
    call.answered =>
        IF call.resp.err = NoError /\ IsSuccessStatus(call.resp.status)
        THEN call.state = "resolved" /\ call.value = BodyValue(call.resp.body)
        ELSE call.state = "rejected"

EndpointTable ==
    [op \in ClientOps |->
        CASE op = "getInfo" -> <<M_GET, <<"/">>>>
          [] op = "createUser" -> <<M_POST, P_users>>
          [] op = "getPublicKeys" -> <<M_GET, P_keys>>
          [] op = "addPublicKey" -> <<M_POST, P_keys>>
          [] op = "destroyPublicKey" -> <<M_DELETE, P_keys \o <<"/">> \o PubkeyArg>>
          [] op = "getBuckets" -> <<M_GET, P_buckets>>
          [] op = "createBucket" -> <<M_POST, P_buckets>>
          [] op = "getBucketById" -> <<M_GET, P_buckets \o <<"/">> \o BucketId>>
          [] op = "destroyBucketById" -> <<M_DELETE, P_buckets \o <<"/">> \o BucketId>>
          [] op = "updateBucketById" -> <<M_PATCH, P_buckets \o <<"/">> \o BucketId>>
          [] op = "listFilesInBucket" ->
                <<M_GET, P_buckets \o <<"/">> \o BucketId \o <<"/", "f", "i", "l", "e", "s">>>>
          [] op = "createToken" ->
                <<M_POST, P_buckets \o <<"/">> \o BucketId
                          \o <<"/", "t", "o", "k", "e", "n", "s">>>>
          [] op = "removeFileFromBucket" ->
                <<M_DELETE, P_buckets \o <<"/">> \o BucketId
                            \o <<"/", "f", "i", "l", "e", "s", "/">> \o FileHash>>
          [] op = "createFileStagingFrame" -> <<M_POST, P_frames>>
          [] op = "getFileStagingFrames" -> <<M_GET, P_frames>>
          [] op = "getFileStagingFrameById" -> <<M_GET, P_frames \o <<"/">> \o BucketId>>
          [] op = "destroyFileStagingFrameById" ->
                <<M_DELETE, P_frames \o <<"/">> \o BucketId>>
          [] op = "addShardToFileStagingFrame" ->
                <<M_PUT, P_frames \o <<"/">> \o BucketId>>]

\* C13: a call of an operation built on _request issues one request, with
\* the method and path of its endpoint, and no other request before or after
\* the answer, whatever the answer.
C13_OneRequestPerCall ==
    (call.state # "idle" /\ call.op \in ClientOps) =>
        /\ call.requests = 1
        /\ <<call.method, call.path>> = EndpointTable[call.op]

\* A call whose one request failed.
C13_Witness ==
    /\ call.op = "removeFileFromBucket"
    /\ call.answered
    /\ call.state = "rejected"
    /\ call.resp.status = 500
    /\ call.requests = 1

\* C14: once the transport has answered or failed, the promise of an
\* operation built on _request is settled, by one call of resolve or reject.
C14_SettlesOnce ==
    (call.answered /\ call.op \in ClientOps) =>
        /\ call.state \in {"resolved", "rejected"}
        /\ call.settles = 1

\* C15: of two successive requests of a client with a keypair, the later one
\* carries a strictly greater __nonce.
C15_NonceIncreases ==
    [][(HasKeypair /\ last.issued /\ last'.issued /\ last' # last)
          => last'.nonce > last.nonce]_vars

\* The shards of the call under way.
ShardIds == 1..Len(store.shards)

\* C16: the registration request is issued only when all numShards shards
\* have finished their push, at most once in a call, and the promise is
\* resolved only with the answer of that request.
C16_RegisterAfterAllShards ==
    /\ store.regCount <= 1
    /\ store.reg # "none" =>
          /\ store.regCount = 1
          /\ store.completed = store.numShards
          /\ \A i \in ShardIds : store.shards[i].pc = "done" /\ store.shards[i].pushed
    /\ store.promise = "resolved" =>
          store.reg = "ok" /\ store.value = <<"register", 1>>

\* A file of several shards, registered and resolved.
C16_Witness ==
    /\ store.numShards >= 2
    /\ store.promise = "resolved"
    /\ store.reg = "ok"

\* C17: a shard's add-shard request is issued only once the frame is there
\* and the shard is hashed and its audit generated; its bytes are pushed only
\* once that request has given its pointer and the data channel is open; no
\* shard is read before the frame is there.
C17_ShardStepOrder ==
    \A i \in ShardIds :
        /\ store.shards[i].pc # "waiting" => store.frame = "ok"
        /\ store.shards[i].audited => store.shards[i].hashed
        /\ store.shards[i].requested =>
              /\ store.frame = "ok"
              /\ store.shards[i].hashed
              /\ store.shards[i].audited
        /\ store.shards[i].pointer => store.shards[i].requested
        /\ store.shards[i].pc \in {"pushing", "done"} =>
              /\ store.shards[i].pointer
              /\ store.shards[i].opened
        /\ store.shards[i].pushed => store.shards[i].pc = "done"

\* One shard is being pushed while another is still being read.
C17_Witness ==
    /\ store.numShards >= 2
    /\ store.shards[1].pc = "reading"
    /\ store.shards[2].pc = "pushing"

\* C18: once the add-shard request of a shard has failed, the promise is
\* rejected with the error of the first such failure, it is not resolved,
\* and no registration request is issued.
C18_FirstShardFailureRejects ==
    store.failures # <<>> =>
        /\ store.promise = "rejected"
        /\ store.value = <<"addShard", store.failures[1]>>
        /\ store.reg = "none"
        /\ store.regCount = 0

\* Two shards failed, the second one first, while a third finished its push.
C18_Witness ==
    /\ Len(store.failures) = 2
    /\ store.failures[1] = 2
    /\ \E i \in ShardIds : store.shards[i].pc = "done"

\* C19: after the promise is rejected, the handlers of a shard that is under
\* way act as before: the audit's finish issues the add-shard request, the
\* pointer opens the data channel, the open channel starts the push and the
\* push finishes and is counted.
C19_SiblingsNotCancelled ==
    store.promise = "rejected" =>
        \A i \in ShardIds :
            /\ store.shards[i].pc = "reading" =>
                  AfterTmpFinish(store, i).shards[i].pc = "auditing"
            /\ store.shards[i].pc = "auditing" =>
                  /\ AfterAuditFinish(store, i).shards[i].pc = "adding"
                  /\ AfterAuditFinish(store, i).shards[i].requested
            /\ store.shards[i].pc = "adding" =>
                  AfterAddShard(store, i, TRUE).shards[i].pc = "opening"
            /\ store.shards[i].pc = "opening" =>
                  AfterChannel(store, i, TRUE).shards[i].pc = "pushing"
            /\ store.shards[i].pc = "pushing" =>
                  /\ AfterPushFinish(store, i).shards[i].pushed
                  /\ AfterPushFinish(store, i).completed = store.completed + 1

\* A shard that was still being read when the promise was rejected has since
\* issued its add-shard request and pushed its data.
C19_Witness ==
    /\ store.promise = "rejected"
    /\ store.late
    /\ \E i \in ShardIds : store.shards[i].pc = "failed"
    /\ \E i \in ShardIds : store.shards[i].pc = "done" /\ store.shards[i].pushed

\* No network call of the call under way is outstanding and no handler is
\* left to run.
StoreQuiescent ==
    /\ store.active
    /\ store.frame # "requested"
    /\ store.frame = "ok" => store.emitted = store.numShards
    /\ \A i \in ShardIds : store.shards[i].pc \in {"waiting", "done", "failed", "channelError"}
    /\ store.reg # "requested"

\* C20: when every network call storeFileInBucket issued has completed, its
\* promise is settled.
C20_StoreSettles ==
    StoreQuiescent => store.promise \in {"resolved", "rejected"}

\* The pointers of the call of resolveFileFromPointers under way.
PointerIds == 1..Len(resolve.pointers)

ResolveQuiescent ==
    /\ resolve.state # "idle"
    /\ \A c \in 1..Len(resolve.channels) : resolve.channels[c].state # "connecting"

\* C22: when no channel of a call of resolveFileFromPointers is left to
\* open or fail, the call has given a promise and the promise is settled.
C22_ResolveSettles ==
    ResolveQuiescent => resolve.promise \in {"resolved", "rejected"}

\* The shards of the n pointers in the order of the list, as one buffer.
ShardsInOrder(n) == <<"raw", [i \in 1..n |-> i]>>

\* C23: all the requests are issued by the call; a resolved promise holds
\* the shards of all pointers in the order of the list; once the request of
\* a pointer has failed, or its answer could not be parsed, the promise is
\* rejected, with the error of the first such pointer, and it is not resolved.
C23_ShardsInPointerOrder ==
    fetch.state = "running" =>
        /\ Len(fetch.requests) = fetch.length
        /\ fetch.promise = "resolved" =>
              /\ fetch.failures = <<>>
              /\ Len(fetch.arrived) = fetch.length
              /\ fetch.value = ShardsInOrder(fetch.length)
        /\ fetch.failures # <<>> =>
              /\ fetch.promise = "rejected"
              /\ fetch.value[1] = "error"
              /\ fetch.value[2] = fetch.failures[1]
        /\ (fetch.failures = <<>> /\ Len(fetch.arrived) < fetch.length) =>
              fetch.promise = "pending"

\* The promise is resolved after the answers arrived in another order than
\* that of the pointers.
C23_Witness ==
    /\ fetch.promise = "resolved"
    /\ fetch.length >= 2
    /\ fetch.arrived[1] = 2
    /\ fetch.arrived[fetch.length] = 1

\* After one answer could not be parsed and a request failed, the promise
\* holds the error of the first of the two.
C23_WitnessRejected ==
    /\ fetch.promise = "rejected"
    /\ Len(fetch.failures) = 2
    /\ fetch.failures[1] = 2
    /\ fetch.value = <<"error", 2, "TypeError">>


\* The keys of the objects a caller passes, and the nonce.
ParamKeys == {K_name, K_storage, K_email, K_password, K_nonce}

\* The properties of an object that are not its nonce, in their order.
WithoutNonce(obj) == SelectSeq(obj, LAMBDA p : p.k # K_nonce)

\* C24: a call of _request with an object of the caller's leaves the object
\* with one __nonce, the reading of the clock at the call, and with every
\* other key as it was handed in; the parameters sent are that object, so a
\* nonce the object held from an earlier call is not sent again.
C24_OnlyNonceChanges ==
    [][(last'.issued /\ last' # last /\ last'.byRef) =>
          /\ last'.op = "_request" => last'.args = callerObj
          /\ WithoutNonce(callerObj') = WithoutNonce(last'.args)
          /\ Cardinality({i \in 1..Len(callerObj') : callerObj'[i].k = K_nonce}) = 1
          /\ Get(callerObj', K_nonce) = Num(now)
          /\ \A k \in ParamKeys \ {K_nonce} :
                Get(callerObj', k) = Get(last'.args, k)
          /\ SentParams(last'.opts) = callerObj'
          /\ Has(last'.args, K_nonce) =>
                Len(callerObj') = Len(last'.args)]_vars

\* An object that held the nonce of an earlier call was passed to _request
\* itself at a later time, and holds the nonce of that time.
C24_Witness ==
    /\ last.issued /\ last.byRef /\ last.op = "_request"
    /\ Get(last.args, K_nonce) = Num(0)
    /\ Len(last.args) > 1
    /\ last.nonce = 1
    /\ Get(callerObj, K_nonce) = Num(1)


\* A step that starts a process of the tool with a command.
RunStep == cli.pc \in {"idle", "done", "exited", "threw", "stalled"} /\ cli' # cli

C26_NoKeyNoOutput ==
    (/\ cli.cmd = "downloadfile"
     /\ cli.log # <<>>
     /\ cli.log[Len(cli.log)] = "error: no decryption key") =>
        /\ ~HasKey(cli.keyring, cli.id)
        /\ cli.out = "absent"
        /\ cli.channels = 0

\* C27: the key file is written only by the handler login gives addPublicKey
\* for its resolution, with the private key of the public key the bridge
\* accepted; the handler for its rejection leaves the device without a key
\* file; and login on a device that has a key file logs an error and ends,
\* having called no method of the client and left the key file as it was.
C27_KeyFileAfterRegistration ==
    [][/\ (keyfile' # keyfile /\ keyfile' # <<>>) =>
              /\ cli.cmd = "login" /\ cli.pc = "request"
              /\ cli.calls = <<"addPublicKey">>
              /\ cli'.log = <<"info">>
              /\ keyfile = <<>>
              /\ registered' = getPublicKey(KeyPairFromPrivate(keyfile'))
       /\ (cli.cmd = "login" /\ cli.pc = "request" /\ cli'.log = <<"error: message">>) =>
              keyfile = <<>> /\ keyfile' = <<>> /\ registered' = registered
       /\ (cli.cmd = "login" /\ cli.pc = "credentials") => keyfile' = keyfile
       /\ (RunStep /\ cli'.cmd = "login" /\ keyfile # <<>>) =>
              /\ cli'.log = <<"error: already paired">>
              /\ cli'.pc = "done"
              /\ cli'.calls = <<>>
              /\ keyfile' = keyfile]_vars

\* login has written the key file of a key pair whose public key the bridge
\* accepted.
C27_Witness ==
    /\ cli.cmd = "login" /\ cli.pc = "done" /\ cli.log = <<"info">>
    /\ keyfile = getPrivateKey(KeyPairGenerated(26))
    /\ registered = getPublicKey(KeyPairGenerated(26))

\* C28: when a process of uploadfile that wrote the temporary file is at its
\* end, with no handler left to run, the temporary file is removed; and the
\* keyring holds the key of the upload only under the id of the stored file
\* and only when the handler of the resolution of storeFileInBucket ran.
C28_TmpRemoved ==
    cli.cmd = "uploadfile" =>
        /\ (cli.wroteTmp /\ cli.pc \in {"done", "exited", "stalled"}) =>
              cli.tmp = "absent"
        /\ \A e \in cli.keyring : e[2] = cli.secret =>
              /\ e[1] = StoredId
              /\ cli.pc = "done"
              /\ cli.calls = <<"createToken", "storeFileInBucket">>

\* C29: the command that was run is bound to a key of ACTIONS, the method
\* its action calls first is a method of the client, and the command did not
\* end in a TypeError.
C29_CommandsMirrorOperations ==
    cli.cmd # "" =>
        /\ BoundAction(cli.cmd) \in Actions
        /\ FirstOperation(cli.cmd) \in ClientMethods \cup {""}
        /\ cli.pc # "threw"


====
